---- MODULE Spec2Model ----
(***************************************************************************)
(* A model of sendit's dispatch pipeline (github.com/lewta/sendit):        *)
(* the worker pool, the resource monitor, the scheduler, the backoff       *)
(* registry, the error classifier and the engine's dispatch loop.          *)
(*                                                                         *)
(* The specifications that share the module:                               *)
(*   SpecPool    - concurrent callers of Pool.Acquire / Pool.Release       *)
(*   Spec        - Engine.Run with its gates and its dispatch goroutines   *)
(*   FairSpec    - Spec with the fairness of Go's scheduler and selects    *)
(*   SpecBackoff - concurrent callers of the BackoffRegistry, one lock     *)
(*                 acquisition per step                                    *)
(*   SpecJitter  - the delays of consecutive RecordError calls             *)
(*   SpecReload  - Engine.Reload against the dispatch loop and its tasks   *)
(*   SpecClassify - the error classifiers and the DNS driver's RCODE map   *)
(*   SpecLimiter - concurrent callers of the rate-limit Registry           *)
(*   SpecPacing  - successive Scheduler.Wait calls against a clock         *)
(*   SpecSelector - NewSelector's alias table and Selector.Pick            *)
(*   SpecWriter  - the output Writer: Send, the writer goroutine, Close    *)
(*   SpecHostname - hostname applied to a string and to its own result     *)
(*   SpecLocks   - concurrent callers of the BackoffRegistry, one lock or  *)
(*                 unlock per step                                         *)
(*   SpecDispatch - concurrent dispatch goroutines on one BackoffRegistry  *)
(*   SpecUpdate  - Scheduler.UpdatePacing against a humanWait              *)
(***************************************************************************)
EXTENDS Integers, FiniteSets, Sequences, TLC

(***************************************************************************)
(* Bounds of the model.                                                    *)
(***************************************************************************)
\* SpecPool: NewPool(PoolWorkers, PoolBrowserWorkers)
PoolWorkers == 2

PoolBrowserWorkers == 1

\* SpecPool: number of goroutines calling the pool concurrently
NCallers == 3

\* Spec: limits.max_workers and limits.max_browser_workers of the engine's config
MaxWorkers == 1

MaxBrowserWorkers == 1

\* backoff.max_attempts
MaxAttempts == 2

\* SpecBackoff: number of goroutines calling the registry concurrently
NBackoffProcs == 3

\* SpecBackoff: number of calls the goroutines make in all
MaxCalls == 6

\* SpecJitter: consecutive RecordError calls on the domain
MaxJitterAttempts == 4

\* SpecJitter: rand.Float64() takes the values r / RandSteps, 0 <= r < RandSteps
RandSteps == 4

\* Spec: close functions of expired timers that have not run yet
MaxCloseFns == 1

\* SpecReload: number of Engine.Reload calls
MaxReloads == 2

\* SpecReload: limits.max_workers, the dispatch goroutines in flight at once
ReloadWorkers == 1

\* SpecClassify: the status codes run from -MaxStatusCode to MaxStatusCode
MaxStatusCode == 700

\* SpecClassify: the RCODEs run from 0 to MaxRcode
MaxRcode == 23

\* SpecLimiter: number of goroutines calling Registry.Wait concurrently
NLimiterProcs == 3

\* SpecLimiter: number of Registry.Wait calls in all
MaxLimiterCalls == 5

\* SpecPacing: the clock runs from 0 to MaxNow ticks of 100 ms
MaxNow == 8

\* SpecPacing: number of Scheduler.Wait calls
MaxWaits == 4

\* SpecSelector: len(targets) is at most MaxTargets, each weight at most MaxWeight
MaxTargets == 4

MaxWeight == 3

\* SpecWriter: the capacity of Writer.ch (chanBuf, 512 in the source)
ChanBuf == 2

\* SpecWriter: number of dispatch goroutines calling Send, and of results in all
NSenders == 2

MaxSends == 4

\* SpecHostname: the strings are "", "//" or "a://" followed by at most MaxBody characters
MaxBody == 4

\* SpecLocks: number of goroutines calling the registry concurrently
NLockProcs == 3

\* SpecLocks: number of calls the goroutines make in all
MaxLockCalls == 4

\* SpecDispatch: dispatch goroutines in flight at once (limits.max_workers)
NDispatch == 2

\* SpecDispatch: go statements of the loop
MaxSpawns == 4

\* SpecDispatch: the clock runs from 0 to MaxClock
MaxClock == 3

\* SpecDispatch: the delay RecordError draws, in clock ticks, at most
MaxBackoffDelay == 2

\* SpecUpdate: pacing.min_delay_ms and pacing.max_delay_ms, at most
MaxDelayMs == 3

\* SpecUpdate: number of UpdatePacing calls
MaxUpdates == 2

VARIABLES
    ctxDone,     \* the top-level context's Done channel is closed
    capGlobal,   \* cap(Pool.global)
    capBrowser,  \* cap(Pool.browser)
    global,      \* len(Pool.global)
    browser,     \* len(Pool.browser)
    wg,          \* Pool.wg counter
    cpc,         \* SpecPool: position of each caller
    ctype,       \* SpecPool: task type each caller acquires for
    mode,        \* Scheduler.cfg.Mode
    cpuThresholdPct, \* Monitor.cpuThresholdPct
    runPc,       \* position of Engine.Run
    cur,         \* Engine.Run's local t, the picked task
    ready,       \* Monitor.ready is closed
    overLimit,   \* Monitor.overLimit
    pollPc,      \* position of Monitor.poll
    afterFunc,   \* the context.AfterFunc registered by Admit
    inWindow,    \* Scheduler.inWindow
    closeTimer,  \* Scheduler.Start's closeTimer is pending
    closeFns,    \* close functions of expired timers, started and yet to store
    cronOn,      \* the cron driver is running
    task,        \* the dispatch goroutines, one per worker slot
    attempts,    \* BackoffRegistry: domainBackoff.attempts per domain, 0 when absent
    blocked,     \* BackoffRegistry: domainBackoff.nextAllowed is still in the future
    domains,     \* SpecBackoff: BackoffRegistry.domains, domain -> *domainBackoff, 0 when absent
    dbAttempts,  \* SpecBackoff: attempts of each domainBackoff object
    dbPending,   \* SpecBackoff: the domainBackoff objects whose nextAllowed is still in the future
    rpc,         \* SpecBackoff: position of each caller of the registry
    rdom,        \* SpecBackoff: the domain argument of each caller
    rdb,         \* SpecBackoff: each caller's local db, 0 when it holds none
    rstale,      \* SpecBackoff: the domain was deleted after this RecordError looked it up
    cnt,         \* SpecBackoff: per domain, RecordError calls since the last delete
    ncalls,      \* SpecBackoff: calls begun
    jit,         \* SpecJitter: a BackoffRegistry's parameters and its last RecordError
    cfgs,        \* SpecReload: the *config.Config given to New (0) and to the k-th Reload (k)
    nReloads,    \* SpecReload: number of Reload calls so far
    eCfg,        \* SpecReload: Engine.cfg, as the number of the configuration stored
    eSelector,   \* SpecReload: Engine.selector, as the number of the configuration it was built from
    eRl,         \* SpecReload: Engine.rl, as the number of the configuration it was built from
    eBackoff,    \* SpecReload: Engine.backoff, likewise
    boReg,       \* SpecReload: the backoff registries built so far: maxAttempts, attempts per host
    rlReg,       \* SpecReload: the rate-limit registries built so far: defaultRps, hosts with a limiter
    sched,       \* SpecReload: the Scheduler: cfg.Mode, minDelayMs, maxDelayMs, activeRPM, limiter
    relPc,       \* SpecReload: position of the goroutine that calls Reload
    relOld,      \* SpecReload: Reload's local old, as a configuration number
    relLast,     \* SpecReload: the configuration of the last Reload (or New) that returned nil
    relErr,      \* SpecReload: the last Reload returned an error
    loopCur,     \* SpecReload: the dispatch loop's local t and the selector it was picked from
    rtask,       \* SpecReload: the dispatch goroutines: position, t, locals rl and bo
    call,        \* SpecClassify: the classifier call: its argument, its position, its results
    lim,         \* SpecLimiter: the Registry (mu, limiters, the rate.Limiters made) and its callers
    pace,        \* SpecPacing: the Scheduler, its rate.Limiter, the clock and the caller of Wait
    slr,         \* SpecSelector: the weights given to NewSelector, the Selector, the last Pick
    out,         \* SpecWriter: the output Writer (ch, done), its goroutine, the file, the callers
    hn,          \* SpecHostname: a string, hostname of it, and hostname of that
    lk,          \* SpecLocks: the BackoffRegistry with its mutexes r.mu and db.mu, and its callers
    dsp,         \* SpecDispatch: concurrent dispatch goroutines, their backoff registry, the clock
    upd          \* SpecUpdate: the Scheduler's delay bounds, a humanWait and an UpdatePacing

poolV == <<capGlobal, capBrowser, global, browser, wg>>
callV == <<cpc, ctype>>
monV == <<ready, overLimit, pollPc, afterFunc>>
schedV == <<inWindow, closeTimer, closeFns, cronOn>>
cfgV == <<mode, cpuThresholdPct>>
boV == <<attempts, blocked>>
regV == <<domains, dbAttempts, dbPending, rpc, rdom, rdb, rstale, cnt, ncalls>>
relV == <<cfgs, nReloads, eCfg, eSelector, eRl, eBackoff, boReg, rlReg, sched,
          relPc, relOld, relLast, relErr, loopCur, rtask>>
conV == <<lk, dsp, upd>>
funV == <<call, lim, pace, slr, out, hn, conV>>
extV == <<jit, relV, funV>>
engV == <<cfgV, runPc, cur, monV, schedV, task, boV, regV, extV>>
nonRegV == <<ctxDone, poolV, callV, cfgV, runPc, cur, monV, schedV, task, boV, extV>>
nonExtV == <<ctxDone, poolV, callV, cfgV, runPc, cur, monV, schedV, task, boV, regV>>
nonRelV == <<nonExtV, jit, funV>>
nonJitV == <<nonExtV, relV, funV>>
vars == <<ctxDone, poolV, callV, engV>>

(***************************************************************************)
(* context.Context                                                         *)
(***************************************************************************)
\* ctx.Err() once Done is closed
CtxErrors == {"Canceled", "DeadlineExceeded"}

(***************************************************************************)
(* Pool (internal/engine/pool.go)                                          *)
(***************************************************************************)
TaskTypes == {"http", "browser", "dns", "websocket"}

\* p.global <- struct{}{} can proceed: the buffered channel has room
GlobalHasRoomOff == global <= capGlobal

GlobalHasRoom == global < capGlobal

\* p.browser <- struct{}{} can proceed
BrowserHasRoom == browser < capBrowser

\* NewPool(maxWorkers, maxBrowserWorkers)
NewPool(maxWorkers, maxBrowserWorkers) ==
    /\ capGlobal = maxWorkers
    /\ capBrowser = maxBrowserWorkers
    /\ global = 0
    /\ browser = 0
    /\ wg = 0

\* Pool.Wait returning with one task still counted
WgIdleOff == wg <= 1

\* Pool.Wait returns: the WaitGroup counter is zero
WgIdle == wg = 0

\* Acquire, first select, case p.global <- struct{}{}
SendGlobal ==
    /\ GlobalHasRoom
    /\ global' = global + 1

\* Acquire, second select, case p.browser <- struct{}{}
SendBrowser ==
    /\ BrowserHasRoom
    /\ browser' = browser + 1

\* <-p.global
RecvGlobal ==
    /\ global > 0
    /\ global' = global - 1

\* <-p.browser
RecvBrowser ==
    /\ browser > 0
    /\ browser' = browser - 1

(***************************************************************************)
(* The engine's state while only the pool is exercised (SpecPool).         *)
(***************************************************************************)
Hosts == {"a", "b"}

Slots == 1..MaxWorkers

BackoffProcs == 1..NBackoffProcs

\* identities of the domainBackoff objects: one per map entry, one per local db
DbIds == 1..(Cardinality(Hosts) + NBackoffProcs)

\* SpecReload: the configurations are numbered: 0 is New's, k the k-th Reload's
Gens == 0..MaxReloads

ReloadSlots == 1..ReloadWorkers

\* no configuration, no registry, no task
NoCfg == [targets |-> <<>>, mode |-> "none", minDelayMs |-> 0, maxDelayMs |-> 0,
          rpm |-> 0, maxAttempts |-> 0, defaultRps |-> 0]

NoBackoffRegistry == [maxAttempts |-> 0, attempts |-> [h \in Hosts |-> 0]]

NoRegistry == [defaultRps |-> 0, limiters |-> {}]

NoDispatch == [pc |-> "free", url |-> "none", sel |-> 0, rl |-> 0, bo |-> 0]

\* the state of the other specifications while they are not the specification
JitterUnused == jit = [initialMs |-> 0, maxMs |-> 0, multiplier |-> <<1, 1>>, attempts |-> 0, delay |-> 0]

ReloadUnused ==
    /\ cfgs = [g \in Gens |-> NoCfg]
    /\ nReloads = 0
    /\ eCfg = 0
    /\ eSelector = 0
    /\ eRl = 0
    /\ eBackoff = 0
    /\ boReg = [g \in Gens |-> NoBackoffRegistry]
    /\ rlReg = [g \in Gens |-> NoRegistry]
    /\ sched = [mode |-> "none", minDelayMs |-> 0, maxDelayMs |-> 0, activeRPM |-> 0, limiter |-> 0]
    /\ relPc = "unused"
    /\ relOld = 0
    /\ relLast = 0
    /\ relErr = FALSE
    /\ loopCur = NoDispatch
    /\ rtask = [s \in ReloadSlots |-> NoDispatch]

\* no classifier call
NoCall == [pc |-> "unused", err |-> "nil", rcode |-> 0, code |-> 0, class |-> "none"]

\* no rate-limit registry
NoLimiters == [mu |-> 0, limiters |-> <<>>, made |-> <<>>, pc |-> <<>>, dom |-> <<>>,
               ret |-> <<>>, asked |-> {}, ncalls |-> 0]

\* no scheduler
NoPacing == [mode |-> "none", minMs |-> 0, maxMs |-> 0, rpm |-> 0, burst |-> 0, tokens |-> 0,
             last |-> 0, now |-> 0, pc |-> "unused", wake |-> 0, d |-> 0, starts |-> <<>>,
             oks |-> 0, retAt |-> 0, cancelled |-> FALSE]

\* no selector
NoSelector == [weights |-> <<>>, pc |-> "unused", n |-> 0, prob |-> <<>>, alias |-> <<>>,
               i |-> 0, u |-> 0, idx |-> 0]

\* no output writer
NoWriter == [ch |-> <<>>, closed |-> FALSE, done |-> FALSE, run |-> "unused", r |-> 0,
             file |-> <<>>, flushed |-> FALSE, send |-> <<>>, close |-> "unused",
             accepted |-> <<>>, dropped |-> {}, nsent |-> 0]

\* no hostname call
NoHostname == [pc |-> "unused", x |-> <<>>, h |-> <<>>, hh |-> <<>>]

\* no registry with explicit mutexes
NoLocks == [mu |-> 0, dbmu |-> <<>>, domains |-> <<>>, attempts |-> <<>>, pend |-> {},
            nobj |-> 0, pc |-> <<>>, dom |-> <<>>, db |-> <<>>, seen |-> <<>>, ncalls |-> 0]

\* no concurrent dispatch
NoDispatchers == [pc |-> <<>>, tgt |-> <<>>, wake |-> <<>>, attempts |-> <<>>,
                  nextAllowed |-> <<>>, now |-> 0, spawns |-> 0]

\* no pacing update
NoUpdate == [minDelayMs |-> 0, maxDelayMs |-> 0, old |-> <<0, 0>>, ranges |-> {},
             wpc |-> "unused", minMs |-> 0, maxMs |-> 0, delayMs |-> 0, upc |-> "unused",
             cfg |-> <<0, 0>>, nupdates |-> 0]

\* the state of the specifications of single components, but for the
\* components named
FunUnused(but) ==
    /\ "call" \in but \/ call = NoCall
    /\ "lim" \in but \/ lim = NoLimiters
    /\ "pace" \in but \/ pace = NoPacing
    /\ "slr" \in but \/ slr = NoSelector
    /\ "out" \in but \/ out = NoWriter
    /\ "hn" \in but \/ hn = NoHostname
    /\ "lk" \in but \/ lk = NoLocks
    /\ "dsp" \in but \/ dsp = NoDispatchers
    /\ "upd" \in but \/ upd = NoUpdate

ExtUnused == JitterUnused /\ ReloadUnused /\ FunUnused({})

\* the fine-grained registry while SpecBackoff is not the specification
RegistryUnused ==
    /\ ExtUnused
    /\ domains = [d \in Hosts |-> 0]
    /\ dbAttempts = [o \in DbIds |-> 0]
    /\ dbPending = {}
    /\ rpc = [p \in BackoffProcs |-> "unused"]
    /\ rdom = [p \in BackoffProcs |-> "none"]
    /\ rdb = [p \in BackoffProcs |-> 0]
    /\ rstale = [p \in BackoffProcs |-> FALSE]
    /\ cnt = [d \in Hosts |-> 0]
    /\ ncalls = 0

NoTask == [pc |-> "free", tgt |-> 0]

EngineUnused ==
    /\ mode = "human"
    /\ cpuThresholdPct = 0
    /\ runPc = "unused"
    /\ cur = 0
    /\ ready = FALSE
    /\ overLimit = FALSE
    /\ pollPc = "unused"
    /\ afterFunc = "none"
    /\ inWindow = FALSE
    /\ closeTimer = FALSE
    /\ closeFns = 0
    /\ cronOn = FALSE
    /\ task = [s \in Slots |-> NoTask]
    /\ attempts = [h \in Hosts |-> 0]
    /\ blocked = [h \in Hosts |-> FALSE]
    /\ RegistryUnused

\* the engine, its pool and the registries while a single component is the
\* specification
ProgramUnused ==
    /\ ctxDone = FALSE
    /\ NewPool(MaxWorkers, MaxBrowserWorkers)
    /\ cpc = [c \in 1..NCallers |-> "idle"]
    /\ ctype = [c \in 1..NCallers |-> "none"]
    /\ mode = "human"
    /\ cpuThresholdPct = 0
    /\ runPc = "unused"
    /\ cur = 0
    /\ ready = FALSE
    /\ overLimit = FALSE
    /\ pollPc = "unused"
    /\ afterFunc = "none"
    /\ inWindow = FALSE
    /\ closeTimer = FALSE
    /\ closeFns = 0
    /\ cronOn = FALSE
    /\ task = [s \in Slots |-> NoTask]
    /\ attempts = [h \in Hosts |-> 0]
    /\ blocked = [h \in Hosts |-> FALSE]
    /\ domains = [d \in Hosts |-> 0]
    /\ dbAttempts = [o \in DbIds |-> 0]
    /\ dbPending = {}
    /\ rpc = [p \in BackoffProcs |-> "unused"]
    /\ rdom = [p \in BackoffProcs |-> "none"]
    /\ rdb = [p \in BackoffProcs |-> 0]
    /\ rstale = [p \in BackoffProcs |-> FALSE]
    /\ cnt = [d \in Hosts |-> 0]
    /\ ncalls = 0
    /\ JitterUnused
    /\ ReloadUnused

(***************************************************************************)
(* SpecPool: NCallers goroutines, each repeatedly Acquire .. Release.      *)
(***************************************************************************)
Callers == 1..NCallers

\* a caller starts Acquire(ctx, t)
CallAcquire(c) ==
    /\ cpc[c] = "idle"
    /\ \E t \in TaskTypes : ctype' = [ctype EXCEPT ![c] = t]
    /\ cpc' = [cpc EXCEPT ![c] = "acq_global"]
    /\ UNCHANGED <<ctxDone, poolV, engV>>

\* Acquire, first select: the send on p.global
AcquireGlobal(c) ==
    /\ cpc[c] = "acq_global"
    /\ SendGlobal
    /\ cpc' = [cpc EXCEPT ![c] = IF ctype[c] = "browser" THEN "acq_browser" ELSE "acq_add"]
    /\ UNCHANGED <<ctxDone, capGlobal, capBrowser, browser, wg, ctype, engV>>

\* Acquire, first select: <-ctx.Done(); return ctx.Err()
AcquireGlobalCancelled(c) ==
    /\ cpc[c] = "acq_global"
    /\ ctxDone
    /\ cpc' = [cpc EXCEPT ![c] = "idle"]
    /\ ctype' = [ctype EXCEPT ![c] = "none"]
    /\ UNCHANGED <<ctxDone, poolV, engV>>

\* Acquire, second select: the send on p.browser
AcquireBrowser(c) ==
    /\ cpc[c] = "acq_browser"
    /\ SendBrowser
    /\ cpc' = [cpc EXCEPT ![c] = "acq_add"]
    /\ UNCHANGED <<ctxDone, capGlobal, capBrowser, global, wg, ctype, engV>>

\* Acquire, second select: <-ctx.Done(), then <-p.global gives the slot back
AcquireBrowserCancelled(c) ==
    /\ cpc[c] = "acq_browser"
    /\ ctxDone
    /\ RecvGlobal
    /\ cpc' = [cpc EXCEPT ![c] = "idle"]
    /\ ctype' = [ctype EXCEPT ![c] = "none"]
    /\ UNCHANGED <<ctxDone, capGlobal, capBrowser, browser, wg, engV>>

\* Acquire: p.wg.Add(1); return nil
AcquireAdd(c) ==
    /\ cpc[c] = "acq_add"
    /\ wg' = wg + 1
    /\ cpc' = [cpc EXCEPT ![c] = "held"]
    /\ UNCHANGED <<ctxDone, capGlobal, capBrowser, global, browser, ctype, engV>>

\* the holder starts Release(t)
CallRelease(c) ==
    /\ cpc[c] = "held"
    /\ cpc' = [cpc EXCEPT ![c] = IF ctype[c] = "browser" THEN "rel_browser" ELSE "rel_global"]
    /\ UNCHANGED <<ctxDone, poolV, ctype, engV>>

\* Release: <-p.browser
ReleaseBrowser(c) ==
    /\ cpc[c] = "rel_browser"
    /\ RecvBrowser
    /\ cpc' = [cpc EXCEPT ![c] = "rel_global"]
    /\ UNCHANGED <<ctxDone, capGlobal, capBrowser, global, wg, ctype, engV>>

\* Release: <-p.global
ReleaseGlobal(c) ==
    /\ cpc[c] = "rel_global"
    /\ RecvGlobal
    /\ cpc' = [cpc EXCEPT ![c] = "rel_done"]
    /\ UNCHANGED <<ctxDone, capGlobal, capBrowser, browser, wg, ctype, engV>>

\* Release: p.wg.Done()
ReleaseDone(c) ==
    /\ cpc[c] = "rel_done"
    /\ wg' = wg - 1
    /\ cpc' = [cpc EXCEPT ![c] = "idle"]
    /\ ctype' = [ctype EXCEPT ![c] = "none"]
    /\ UNCHANGED <<ctxDone, capGlobal, capBrowser, global, browser, engV>>

\* cancel() of the context the callers pass to Acquire
PoolCancel ==
    /\ ~ctxDone
    /\ ctxDone' = TRUE
    /\ UNCHANGED <<poolV, callV, engV>>

CallersIdle ==
    /\ cpc = [c \in Callers |-> "idle"]
    /\ ctype = [c \in Callers |-> "none"]

InitPool ==
    /\ ctxDone = FALSE
    /\ NewPool(PoolWorkers, PoolBrowserWorkers)
    /\ CallersIdle
    /\ EngineUnused

NextPool ==
    \/ PoolCancel
    \/ \E c \in Callers : CallAcquire(c)
    \/ \E c \in Callers : AcquireGlobal(c)
    \/ \E c \in Callers : AcquireGlobalCancelled(c)
    \/ \E c \in Callers : AcquireBrowser(c)
    \/ \E c \in Callers : AcquireBrowserCancelled(c)
    \/ \E c \in Callers : AcquireAdd(c)
    \/ \E c \in Callers : CallRelease(c)
    \/ \E c \in Callers : ReleaseBrowser(c)
    \/ \E c \in Callers : ReleaseGlobal(c)
    \/ \E c \in Callers : ReleaseDone(c)

SpecPool == InitPool /\ [][NextPool]_vars

\* a caller holds a global permit from its send on p.global to its receive
CallerHoldsGlobal(c) == cpc[c] \in {"acq_browser", "acq_add", "held", "rel_browser", "rel_global"}

\* a browser-typed caller holds a browser permit from its send on p.browser to its receive
CallerHoldsBrowser(c) == ctype[c] = "browser" /\ cpc[c] \in {"acq_add", "held", "rel_browser"}

GlobalHolders == {c \in Callers : CallerHoldsGlobal(c)}

BrowserHolders == {c \in Callers : CallerHoldsBrowser(c)}

\* C1: under any interleaving of Acquire, Release and cancellation, at most
\* max_workers callers hold a global permit and at most max_browser_workers
\* browser-typed callers hold a browser permit.
C1_PoolBound ==
    /\ Cardinality(GlobalHolders) <= capGlobal
    /\ Cardinality(BrowserHolders) <= capBrowser

\* C1 witness: after a cancellation the pool is full with a browser holder
\* inside, and another caller is blocked on the global semaphore.
C1_Witness ==
    /\ ctxDone
    /\ Cardinality(GlobalHolders) = capGlobal
    /\ Cardinality(BrowserHolders) = capBrowser
    /\ \E c \in Callers : cpc[c] = "acq_global"

(***************************************************************************)
(* Error classifier (internal/ratelimit/backoff.go)                        *)
(***************************************************************************)
\* ClassifyStatusCode with 500 itself left to the last return
ClassifyStatusCodeOff(code) ==
    IF code \in {429, 502, 503, 504} THEN "Transient"
    ELSE IF code \in {400, 403, 404} THEN "Permanent"
    ELSE IF code = 0 THEN "Transient"
    ELSE IF code >= 200 /\ code < 300 THEN "None"
    ELSE IF code > 500 THEN "Transient"
    ELSE "Permanent"

\* ClassifyStatusCode(code)
ClassifyStatusCode(code) ==
    IF code \in {429, 502, 503, 504} THEN "Transient"
    ELSE IF code \in {400, 403, 404} THEN "Permanent"
    ELSE IF code = 0 THEN "Transient"
    ELSE IF code >= 200 /\ code < 300 THEN "None"
    ELSE IF code >= 500 THEN "Transient"
    ELSE "Permanent"

\* An error value is "nil", one of the two context sentinels themselves, an
\* error that wraps a sentinel (a distinct value: == on it is false), or any
\* other error.
Wraps(e) == IF e = "Canceled" THEN "wraps Canceled" ELSE "wraps DeadlineExceeded"

\* ClassifyError comparing with errors.Is, which sees through wrapping
ClassifyErrorOff(err) ==
    IF err = "nil" THEN "None"
    ELSE IF err \in {"Canceled", "DeadlineExceeded", "wraps Canceled", "wraps DeadlineExceeded"} THEN "Fatal"
    ELSE "Transient"

ClassifyError(err) ==
    IF err = "nil" THEN "None"
    ELSE IF err = "Canceled" \/ err = "DeadlineExceeded" THEN "Fatal"
    ELSE "Transient"

(***************************************************************************)
(* Drivers: the results Execute can return.  aborted marks a result that   *)
(* Execute returned because ctx was cancelled.                             *)
(***************************************************************************)
Result(err, status, aborted) == [err |-> err, status |-> status, aborted |-> aborted]

HTTPStatusCodes == {100, 200, 204, 301, 400, 403, 404, 418, 429, 500, 502, 503, 504}

\* HTTPDriver.Execute: client.Do's error is returned as it is (a *url.Error
\* around the transport's error), otherwise resp.StatusCode
HTTPExecute ==
    {Result("nil", c, FALSE) : c \in HTTPStatusCodes}
        \cup {Result("other", 0, FALSE), Result(Wraps("DeadlineExceeded"), 0, FALSE)}
        \cup (IF ctxDone THEN {Result(Wraps(e), 0, TRUE) : e \in CtxErrors} ELSE {})

\* BrowserDriver.Execute: fmt.Errorf("browser: %w", err), otherwise 200
BrowserExecute ==
    {Result("nil", 200, FALSE), Result("other", 0, FALSE), Result(Wraps("DeadlineExceeded"), 0, FALSE)}
        \cup (IF ctxDone THEN {Result(Wraps(e), 0, TRUE) : e \in CtxErrors} ELSE {})

Rcodes == 0..6

\* rcodeToHTTP with REFUSED left to the default case
rcodeToHTTPOff(rcode) ==
    IF rcode = 0 THEN 200
    ELSE IF rcode = 3 THEN 404
    ELSE IF rcode = 2 THEN 503
    ELSE 502

\* rcodeToHTTP
rcodeToHTTP(rcode) ==
    IF rcode = 0 THEN 200
    ELSE IF rcode = 3 THEN 404
    ELSE IF rcode = 5 THEN 403
    ELSE IF rcode = 2 THEN 503
    ELSE 502

\* DNSDriver.Execute: on <-ctx.Done() the error is ctx.Err() itself
DNSExecute ==
    {Result("nil", rcodeToHTTP(rc), FALSE) : rc \in Rcodes}
        \cup {Result("other", 0, FALSE)}
        \cup (IF ctxDone THEN {Result(e, 0, TRUE) : e \in CtxErrors} ELSE {})

\* WebSocketDriver.Execute: fmt.Errorf("dialing: %w", err) or
\* fmt.Errorf("sending message: %w", err); otherwise 101 once holdCtx is done,
\* by its timeout or by the parent's cancellation
WebSocketExecute ==
    {Result("nil", 101, FALSE), Result("other", 0, FALSE), Result(Wraps("DeadlineExceeded"), 0, FALSE)}
        \cup (IF ctxDone THEN {Result(Wraps(e), 0, TRUE) : e \in CtxErrors} \cup {Result("nil", 101, TRUE)}
              ELSE {})

\* e.drivers[t.Type].Execute(ctx, t)
Execute(type) ==
    IF type = "http" THEN HTTPExecute
    ELSE IF type = "browser" THEN BrowserExecute
    ELSE IF type = "dns" THEN DNSExecute
    ELSE WebSocketExecute

(***************************************************************************)
(* Targets and the selector                                                *)
(***************************************************************************)
\* cfg.Targets: type and hostname(URL) of each target; engine.New does not
\* validate the configuration, so a target may carry a type no driver serves
Targets ==
    <<[type |-> "http", host |-> "a"], [type |-> "browser", host |-> "b"],
      [type |-> "dns", host |-> "a"], [type |-> "websocket", host |-> "b"],
      [type |-> "ftp", host |-> "a"]>>

\* the keys of e.drivers
Drivers == {"http", "browser", "dns", "websocket"}

TargetIds == 1..Len(Targets)

TypeOf(i) == Targets[i].type

HostOf(i) == Targets[i].host

(***************************************************************************)
(* Resource monitor (internal/resource/monitor.go)                         *)
(***************************************************************************)
\* limits.memory_threshold_mb
MemoryThresholdMB == 512

\* the cpu thresholds the engine is run with
CpuThresholds == {0, 60}

\* what cpu.Percent and mem.VirtualMemory can report: <<cpuPct, memUsedMB>>
Samples == {<<0, 100>>, <<90, 100>>, <<10, 900>>}

\* sample's comparison with > for >=
OverOff(smp) == smp[1] > cpuThresholdPct \/ smp[2] > MemoryThresholdMB

\* sample: over := cpuPct >= m.cpuThresholdPct || memUsedMB >= m.memThresholdBytes
Over(smp) == smp[1] >= cpuThresholdPct \/ smp[2] >= MemoryThresholdMB

\* m.cond.Broadcast(): a goroutine parked in cond.Wait resumes and re-checks
Broadcast == runPc' = IF runPc = "admit_parked" THEN "admit_check" ELSE runPc

\* Admit holds m.cond.L from its check of overLimit until cond.Wait parks it
MonitorLocked == runPc = "admit_wait"

\* stop(), deferred by Admit: the AfterFunc is unregistered unless it already started
StopAfterFunc == afterFunc' = IF afterFunc = "registered" THEN "none" ELSE afterFunc

(***************************************************************************)
(* Backoff registry                                                        *)
(***************************************************************************)
\* BackoffRegistry.Attempts(domain)
Attempts(h) == attempts[h]

\* dispatch: bo.Attempts(host) < bo.MaxAttempts(), with <= for <
UnderMaxAttemptsOff(h) == Attempts(h) <= MaxAttempts

\* dispatch: bo.Attempts(host) < bo.MaxAttempts()
UnderMaxAttempts(h) == Attempts(h) < MaxAttempts

\* BackoffRegistry.RecordSuccess(domain): delete(r.domains, domain)
RecordSuccess(h) ==
    /\ attempts' = [attempts EXCEPT ![h] = 0]
    /\ blocked' = [blocked EXCEPT ![h] = FALSE]

\* BackoffRegistry.RecordError(domain): attempts++, nextAllowed = now + delay
RecordError(h) ==
    /\ attempts' = [attempts EXCEPT ![h] = @ + 1]
    /\ blocked' = [blocked EXCEPT ![h] = TRUE]

(***************************************************************************)
(* Scheduler (internal/engine/scheduler.go)                                *)
(***************************************************************************)
Modes == {"human", "rate_limited", "scheduled"}

\* a delay drawn by humanWait or the jitter of rateLimitedWait: zero or positive
Delays == {"zero", "positive"}

\* Scheduler.Wait returned nil; the loop goes on to Pick and e.monitor.Admit(ctx)
WaitOk ==
    /\ runPc' = "admit_ready"
    /\ cur' = cur

\* sleepCtx(ctx, d): d <= 0 returns nil at once, otherwise the select is entered
SleepCtx(d) ==
    IF d = "zero" THEN WaitOk
    ELSE runPc' = "sleep" /\ cur' = cur

\* lim.Wait(ctx) of rateLimitedWait: rate.Limiter.Wait first polls ctx.Done()
LimiterEnter ==
    /\ runPc' = IF ctxDone THEN "drain" ELSE "lim_wait"
    /\ cur' = cur

\* humanWait: the delay is drawn, sleepCtx is called
HumanWait ==
    /\ runPc = "sched_wait"
    /\ mode = "human"
    /\ \E d \in Delays : SleepCtx(d)
    /\ UNCHANGED <<ctxDone, poolV, callV, regV, extV, cfgV, monV, schedV, task, boV>>

\* rateLimitedWait: lim.Wait(ctx) is entered
RateLimitedWait ==
    /\ runPc = "sched_wait"
    /\ mode = "rate_limited"
    /\ LimiterEnter
    /\ UNCHANGED <<ctxDone, poolV, callV, regV, extV, cfgV, monV, schedV, task, boV>>

\* scheduledWait: s.inWindow.Load() decides between the 5 s select and rateLimitedWait
ScheduledWait ==
    /\ runPc = "sched_wait"
    /\ mode = "scheduled"
    /\ IF ~inWindow THEN runPc' = "sched_poll" /\ cur' = cur ELSE LimiterEnter
    /\ UNCHANGED <<ctxDone, poolV, callV, regV, extV, cfgV, monV, schedV, task, boV>>

\* scheduledWait outside a window: case <-time.After(5 * time.Second): return nil
ScheduledPollTimeout ==
    /\ runPc = "sched_poll"
    /\ WaitOk
    /\ UNCHANGED <<ctxDone, poolV, callV, regV, extV, cfgV, monV, schedV, task, boV>>

\* scheduledWait outside a window: case <-ctx.Done(): return ctx.Err()
ScheduledPollCancelled ==
    /\ runPc = "sched_poll"
    /\ ctxDone
    /\ runPc' = "drain"
    /\ UNCHANGED <<ctxDone, poolV, callV, regV, extV, cfgV, cur, monV, schedV, task, boV>>

\* lim.Wait(ctx) returns nil: the token is there; then the jitter's sleepCtx
LimiterGranted ==
    /\ runPc = "lim_wait"
    /\ \E j \in Delays : SleepCtx(j)
    /\ UNCHANGED <<ctxDone, poolV, callV, regV, extV, cfgV, monV, schedV, task, boV>>

\* lim.Wait(ctx) returns ctx.Err()
LimiterCancelled ==
    /\ runPc = "lim_wait"
    /\ ctxDone
    /\ runPc' = "drain"
    /\ UNCHANGED <<ctxDone, poolV, callV, regV, extV, cfgV, cur, monV, schedV, task, boV>>

\* sleepCtx: case <-time.After(d): return nil
SleepTimer ==
    /\ runPc = "sleep"
    /\ WaitOk
    /\ UNCHANGED <<ctxDone, poolV, callV, regV, extV, cfgV, monV, schedV, task, boV>>

SleepCancelledOff ==
    /\ runPc = "sleep"
    /\ ctxDone
    /\ runPc' = "sched_wait"
    /\ UNCHANGED <<ctxDone, poolV, callV, regV, extV, cfgV, cur, monV, schedV, task, boV>>

\* sleepCtx: case <-ctx.Done(): return ctx.Err()
SleepCancelled ==
    /\ runPc = "sleep"
    /\ ctxDone
    /\ runPc' = "drain"
    /\ UNCHANGED <<ctxDone, poolV, callV, regV, extV, cfgV, cur, monV, schedV, task, boV>>

\* Scheduler.Start's cron callback: a window opens, the single close timer is reset
CronFire ==
    /\ cronOn
    /\ inWindow' = TRUE
    /\ closeTimer' = TRUE
    /\ UNCHANGED <<ctxDone, poolV, callV, regV, extV, cfgV, runPc, cur, monV, closeFns, cronOn, task, boV>>

\* the close timer expires: time.AfterFunc starts its function in a goroutine
\* of its own, and a later closeTimer.Stop() no longer reaches it
CloseTimerFire ==
    /\ closeTimer
    /\ closeFns < MaxCloseFns
    /\ closeTimer' = FALSE
    /\ closeFns' = closeFns + 1
    /\ UNCHANGED <<ctxDone, poolV, callV, regV, extV, cfgV, runPc, cur, monV, inWindow, cronOn, task, boV>>

\* the close timer's function: s.inWindow.Store(false)
CloseFuncRun ==
    /\ closeFns > 0
    /\ inWindow' = FALSE
    /\ closeFns' = closeFns - 1
    /\ UNCHANGED <<ctxDone, poolV, callV, regV, extV, cfgV, runPc, cur, monV, closeTimer, cronOn, task, boV>>

\* Scheduler.Start's goroutine: <-ctx.Done(); c.Stop(); closeTimer.Stop()
SchedulerStop ==
    /\ cronOn
    /\ ctxDone
    /\ cronOn' = FALSE
    /\ closeTimer' = FALSE
    /\ UNCHANGED <<ctxDone, poolV, callV, regV, extV, cfgV, runPc, cur, monV, inWindow, closeFns, task, boV>>

(***************************************************************************)
(* Monitor.poll and Monitor.Admit                                          *)
(***************************************************************************)
\* poll: the first m.sample() with its Broadcast, then close(m.ready)
PollFirst ==
    /\ pollPc = "first"
    /\ ~MonitorLocked
    /\ \E smp \in Samples : overLimit' = Over(smp)
    /\ Broadcast
    /\ ready' = TRUE
    /\ pollPc' = "select"
    /\ UNCHANGED <<ctxDone, poolV, callV, regV, extV, cfgV, cur, afterFunc, schedV, task, boV>>

\* poll: case <-ticker.C, then m.sample() with its Broadcast
PollTick ==
    /\ pollPc = "select"
    /\ ~MonitorLocked
    /\ \E smp \in Samples : overLimit' = Over(smp)
    /\ Broadcast
    /\ UNCHANGED <<ctxDone, poolV, callV, regV, extV, cfgV, cur, ready, pollPc, afterFunc, schedV, task, boV>>

\* poll: case <-ctx.Done(): return
PollExit ==
    /\ pollPc = "select"
    /\ ctxDone
    /\ pollPc' = "exited"
    /\ UNCHANGED <<ctxDone, poolV, callV, regV, extV, cfgV, runPc, cur, ready, overLimit, afterFunc, schedV, task, boV>>

\* Admit: case <-m.ready, then stop := context.AfterFunc(ctx, Broadcast); an
\* AfterFunc on a context that is already done starts its function at once
AdmitReady ==
    /\ runPc = "admit_ready"
    /\ ready
    /\ afterFunc' = IF ctxDone THEN "pending" ELSE "registered"
    /\ runPc' = "admit_check"
    /\ UNCHANGED <<ctxDone, poolV, callV, regV, extV, cfgV, cur, ready, overLimit, pollPc, schedV, task, boV>>

\* Admit: case <-ctx.Done(): return ctx.Err()
AdmitReadyCancelled ==
    /\ runPc = "admit_ready"
    /\ ctxDone
    /\ runPc' = "drain"
    /\ UNCHANGED <<ctxDone, poolV, callV, regV, extV, cfgV, cur, monV, schedV, task, boV>>

\* Admit's loop body under m.cond.L: !m.overLimit returns nil, ctx.Err() != nil
\* returns it, otherwise m.cond.Wait() is next
AdmitCheckLoop ==
    IF ~overLimit THEN runPc' = "acquire" /\ StopAfterFunc
    ELSE IF ctxDone THEN runPc' = "drain" /\ StopAfterFunc
    ELSE runPc' = "admit_wait" /\ afterFunc' = afterFunc

AdmitCheck ==
    /\ runPc = "admit_check"
    /\ AdmitCheckLoop
    /\ UNCHANGED <<ctxDone, poolV, callV, regV, extV, cfgV, cur, ready, overLimit, pollPc, schedV, task, boV>>

\* m.cond.Wait(): the goroutine joins the notify list and unlocks m.cond.L
AdmitWait ==
    /\ runPc = "admit_wait"
    /\ runPc' = "admit_parked"
    /\ UNCHANGED <<ctxDone, poolV, callV, regV, extV, cfgV, cur, monV, schedV, task, boV>>

\* the function Admit gave context.AfterFunc runs: m.cond.Broadcast()
AfterFuncRun ==
    /\ afterFunc = "pending"
    /\ afterFunc' = "none"
    /\ Broadcast
    /\ UNCHANGED <<ctxDone, poolV, callV, regV, extV, cfgV, cur, ready, overLimit, pollPc, schedV, task, boV>>

\* the top-level context is cancelled; a registered AfterFunc is started
Cancel ==
    /\ runPc # "unused"
    /\ ~ctxDone
    /\ ctxDone' = TRUE
    /\ afterFunc' = IF afterFunc = "registered" THEN "pending" ELSE afterFunc
    /\ UNCHANGED <<poolV, callV, regV, extV, cfgV, runPc, cur, ready, overLimit, pollPc, schedV, task, boV>>

(***************************************************************************)
(* Engine.Run (internal/engine/engine.go)                                  *)
(***************************************************************************)
\* Run: e.monitor.Start(ctx); e.scheduler.Start(ctx)
RunStart ==
    /\ runPc = "start"
    /\ pollPc' = "first"
    /\ cronOn' = (mode = "scheduled")
    /\ runPc' = "sched_wait"
    /\ UNCHANGED <<ctxDone, poolV, callV, regV, extV, cfgV, cur, ready, overLimit, afterFunc, inWindow, closeTimer, closeFns, task, boV>>

\* t := e.selector.Load().Pick(): a weighted random draw from the targets; it
\* reads nothing that Admit changes, and the draw is resolved where t is first used
Pick(t) == cur' = t

\* Pool.Acquire in the loop, first select: the send on p.global
RunAcquireGlobal ==
    /\ runPc = "acquire"
    /\ SendGlobal
    /\ \E t \in TargetIds :
        /\ Pick(t)
        /\ runPc' = IF TypeOf(t) = "browser" THEN "acquire_browser" ELSE "spawn"
    /\ UNCHANGED <<ctxDone, capGlobal, capBrowser, browser, wg, callV, regV, extV, cfgV, monV, schedV, task, boV>>

\* Pool.Acquire in the loop, first select: <-ctx.Done(); the loop breaks
RunAcquireGlobalCancelled ==
    /\ runPc = "acquire"
    /\ ctxDone
    /\ runPc' = "drain"
    /\ UNCHANGED <<ctxDone, poolV, callV, regV, extV, cfgV, cur, monV, schedV, task, boV>>

\* Pool.Acquire in the loop, second select: the send on p.browser
RunAcquireBrowser ==
    /\ runPc = "acquire_browser"
    /\ SendBrowser
    /\ runPc' = "spawn"
    /\ UNCHANGED <<ctxDone, capGlobal, capBrowser, global, wg, callV, regV, extV, cfgV, cur, monV, schedV, task, boV>>

\* the second select's <-ctx.Done() case returning without <-p.global
RunAcquireBrowserCancelledOff ==
    /\ runPc = "acquire_browser"
    /\ ctxDone
    /\ runPc' = "drain"
    /\ cur' = 0
    /\ UNCHANGED <<ctxDone, poolV, callV, regV, extV, cfgV, monV, schedV, task, boV>>

\* Pool.Acquire in the loop, second select: <-ctx.Done(); <-p.global; the loop breaks
RunAcquireBrowserCancelled ==
    /\ runPc = "acquire_browser"
    /\ ctxDone
    /\ RecvGlobal
    /\ runPc' = "drain"
    /\ cur' = 0
    /\ UNCHANGED <<ctxDone, capGlobal, capBrowser, browser, wg, callV, regV, extV, cfgV, monV, schedV, task, boV>>

\* a worker slot no dispatch goroutine occupies
FreeSlot == CHOOSE s \in Slots : task[s].pc = "free" /\ \A r \in Slots : task[r].pc = "free" => s <= r

\* Pool.Acquire: p.wg.Add(1); return nil, then go e.dispatch(ctx, t)
Spawn ==
    /\ runPc = "spawn"
    /\ \E s \in Slots : task[s].pc = "free"
    /\ wg' = wg + 1
    /\ task' = [task EXCEPT ![FreeSlot] = [pc |-> "bo_wait", tgt |-> cur]]
    /\ cur' = 0
    /\ runPc' = "sched_wait"
    /\ UNCHANGED <<ctxDone, capGlobal, capBrowser, global, browser, callV, regV, extV, cfgV, monV, schedV, boV>>

\* after the loop: e.pool.Wait() returns, the deferred e.writer.Close() runs, Run returns
Drain ==
    /\ runPc = "drain"
    /\ WgIdle
    /\ runPc' = "returned"
    /\ UNCHANGED <<ctxDone, poolV, callV, regV, extV, cfgV, cur, monV, schedV, task, boV>>

(***************************************************************************)
(* Engine.dispatch                                                         *)
(***************************************************************************)
\* the goroutine goes on to its deferred e.pool.Release(t.Type)
ToRelease(s) == task' = [task EXCEPT ![s].pc = "release"]

\* dispatch: drv, ok := e.drivers[t.Type]; if !ok { return }
UnknownDriver(s) ==
    /\ task[s].pc = "bo_wait"
    /\ TypeOf(task[s].tgt) \notin Drivers
    /\ ToRelease(s)
    /\ UNCHANGED <<ctxDone, poolV, callV, regV, extV, cfgV, runPc, cur, monV, schedV, boV>>

\* dispatch up to bo.Wait(ctx, host): no entry returns nil; an entry whose delay
\* has elapsed is evicted when attempts >= maxAttempts; otherwise Wait sleeps
BackoffWait(s) ==
    /\ task[s].pc = "bo_wait"
    /\ TypeOf(task[s].tgt) \in Drivers
    /\ LET h == HostOf(task[s].tgt) IN
        IF attempts[h] = 0
        THEN task' = [task EXCEPT ![s].pc = "rl_wait"] /\ UNCHANGED boV
        ELSE IF ~blocked[h]
        THEN /\ task' = [task EXCEPT ![s].pc = "rl_wait"]
             /\ IF attempts[h] >= MaxAttempts THEN RecordSuccess(h) ELSE UNCHANGED boV
        ELSE task' = [task EXCEPT ![s].pc = "bo_sleep"] /\ UNCHANGED boV
    /\ UNCHANGED <<ctxDone, poolV, callV, regV, extV, cfgV, runPc, cur, monV, schedV>>

\* bo.Wait: case <-time.After(remaining): return nil
BackoffSleepTimer(s) ==
    /\ task[s].pc = "bo_sleep"
    /\ task' = [task EXCEPT ![s].pc = "rl_wait"]
    /\ UNCHANGED <<ctxDone, poolV, callV, regV, extV, cfgV, runPc, cur, monV, schedV, boV>>

\* bo.Wait: case <-ctx.Done(): return ctx.Err(); dispatch returns
BackoffSleepCancelled(s) ==
    /\ task[s].pc = "bo_sleep"
    /\ ctxDone
    /\ ToRelease(s)
    /\ UNCHANGED <<ctxDone, poolV, callV, regV, extV, cfgV, runPc, cur, monV, schedV, boV>>

\* rl.Wait(ctx, host) returns nil; drv.Execute(ctx, t) starts
RateLimitGranted(s) ==
    /\ task[s].pc = "rl_wait"
    /\ task' = [task EXCEPT ![s].pc = "exec"]
    /\ UNCHANGED <<ctxDone, poolV, callV, regV, extV, cfgV, runPc, cur, monV, schedV, boV>>

\* dispatch going on to drv.Execute although rl.Wait returned ctx.Err()
RateLimitCancelledOff(s) ==
    /\ task[s].pc = "rl_wait"
    /\ ctxDone
    /\ task' = [task EXCEPT ![s].pc = "exec"]
    /\ UNCHANGED <<ctxDone, poolV, callV, regV, extV, cfgV, runPc, cur, monV, schedV, boV>>

\* rl.Wait(ctx, host) returns ctx.Err(); dispatch returns
RateLimitCancelled(s) ==
    /\ task[s].pc = "rl_wait"
    /\ ctxDone
    /\ ToRelease(s)
    /\ UNCHANGED <<ctxDone, poolV, callV, regV, extV, cfgV, runPc, cur, monV, schedV, boV>>

\* the class dispatch gives a result
ResultClass(r) == IF r.err # "nil" THEN ClassifyError(r.err) ELSE ClassifyStatusCode(r.status)

\* dispatch after drv.Execute returned r: the reaction to r's class
React(s, r) ==
    /\ task[s].pc = "exec"
    /\ r \in Execute(TypeOf(task[s].tgt))
    /\ LET h == HostOf(task[s].tgt)
           class == ResultClass(r)
       IN  IF class = "Transient" /\ UnderMaxAttempts(h)
           THEN task' = [task EXCEPT ![s].pc = "record"] /\ UNCHANGED boV
           ELSE IF class = "None"
           THEN RecordSuccess(h) /\ ToRelease(s)
           ELSE ToRelease(s) /\ UNCHANGED boV
    /\ UNCHANGED <<ctxDone, poolV, callV, regV, extV, cfgV, runPc, cur, monV, schedV>>

\* drv.Execute(ctx, t) returns and dispatch reacts
ExecuteReturns(s) ==
    /\ task[s].pc = "exec"
    /\ \E r \in Execute(TypeOf(task[s].tgt)) : React(s, r)

\* dispatch: delay := bo.RecordError(host)
DispatchRecordError(s) ==
    /\ task[s].pc = "record"
    /\ RecordError(HostOf(task[s].tgt))
    /\ ToRelease(s)
    /\ UNCHANGED <<ctxDone, poolV, callV, regV, extV, cfgV, runPc, cur, monV, schedV>>

\* the deferred e.pool.Release(t.Type): <-p.browser for a browser task,
\* <-p.global, p.wg.Done(); the goroutine ends
Release(s) ==
    /\ task[s].pc = "release"
    /\ IF TypeOf(task[s].tgt) = "browser" THEN RecvBrowser ELSE browser' = browser
    /\ RecvGlobal
    /\ wg' = wg - 1
    /\ task' = [task EXCEPT ![s] = NoTask]
    /\ UNCHANGED <<ctxDone, capGlobal, capBrowser, callV, regV, extV, cfgV, runPc, cur, monV, schedV, boV>>

\* time passes a domain's nextAllowed
BackoffElapses(h) ==
    /\ blocked[h]
    /\ blocked' = [blocked EXCEPT ![h] = FALSE]
    /\ UNCHANGED <<ctxDone, poolV, callV, regV, extV, cfgV, runPc, cur, monV, schedV, task, attempts>>

(***************************************************************************)
(* Spec: the engine                                                        *)
(***************************************************************************)
\* engine.New(cfg, m) for each configuration, before Run
Init ==
    /\ ctxDone = FALSE
    /\ NewPool(MaxWorkers, MaxBrowserWorkers)
    /\ CallersIdle
    /\ mode \in Modes
    /\ cpuThresholdPct \in CpuThresholds
    /\ runPc = "start"
    /\ cur = 0
    /\ ready = FALSE
    /\ overLimit = FALSE
    /\ pollPc = "unstarted"
    /\ afterFunc = "none"
    /\ inWindow = FALSE
    /\ closeTimer = FALSE
    /\ closeFns = 0
    /\ cronOn = FALSE
    /\ task = [s \in Slots |-> NoTask]
    /\ attempts = [h \in Hosts |-> 0]
    /\ blocked = [h \in Hosts |-> FALSE]
    /\ RegistryUnused

\* a step of Engine.Run's own goroutine
RunStep ==
    \/ RunStart
    \/ HumanWait
    \/ RateLimitedWait
    \/ ScheduledWait
    \/ ScheduledPollTimeout
    \/ ScheduledPollCancelled
    \/ LimiterGranted
    \/ LimiterCancelled
    \/ SleepTimer
    \/ SleepCancelled
    \/ AdmitReady
    \/ AdmitReadyCancelled
    \/ AdmitCheck
    \/ AdmitWait
    \/ RunAcquireGlobal
    \/ RunAcquireGlobalCancelled
    \/ RunAcquireBrowser
    \/ RunAcquireBrowserCancelled
    \/ Spawn
    \/ Drain

\* a step of a dispatch goroutine
TaskStep ==
    \/ \E s \in Slots : UnknownDriver(s)
    \/ \E s \in Slots : BackoffWait(s)
    \/ \E s \in Slots : BackoffSleepTimer(s)
    \/ \E s \in Slots : BackoffSleepCancelled(s)
    \/ \E s \in Slots : RateLimitGranted(s)
    \/ \E s \in Slots : RateLimitCancelled(s)
    \/ \E s \in Slots : ExecuteReturns(s)
    \/ \E s \in Slots : DispatchRecordError(s)
    \/ \E s \in Slots : Release(s)

\* a step of one of the engine's background goroutines
BackgroundStep ==
    \/ PollFirst
    \/ PollTick
    \/ PollExit
    \/ AfterFuncRun
    \/ SchedulerStop
    \/ CronFire
    \/ CloseTimerFire
    \/ CloseFuncRun

\* what the program's surroundings do: cancellation, the passing of time
EnvironmentStep ==
    \/ Cancel
    \/ \E h \in Hosts : BackoffElapses(h)

Next ==
    \/ RunStep
    \/ TaskStep
    \/ BackgroundStep
    \/ EnvironmentStep

Spec == Init /\ [][Next]_vars

\* the <-ctx.Done() cases of the loop's selects
RunCancelled ==
    \/ ScheduledPollCancelled
    \/ LimiterCancelled
    \/ SleepCancelled
    \/ AdmitReadyCancelled
    \/ RunAcquireGlobalCancelled
    \/ RunAcquireBrowserCancelled

\* Spec with the scheduling Go gives: a goroutine that can step does step, and
\* a select takes a case that is ready again and again (the choice among ready
\* cases is uniformly random)
FairSpec ==
    /\ Spec
    /\ WF_vars(RunStep)
    /\ WF_vars(TaskStep)
    /\ WF_vars(BackgroundStep)
    /\ SF_vars(RunCancelled)
    /\ SF_vars(PollExit)

(***************************************************************************)
(* Claims about the engine                                                 *)
(***************************************************************************)
\* the positions of Engine.Run inside Scheduler.Wait
SchedPcs == {"sched_wait", "sched_poll", "lim_wait", "sleep"}

\* the positions of Engine.Run inside Monitor.Admit
AdmitPcs == {"admit_ready", "admit_check", "admit_wait", "admit_parked"}

\* the positions of Engine.Run from Pool.Acquire's first permit to the go statement
AcquiredPcs == {"acquire_browser", "spawn"}

\* the dispatch goroutines that are running
Running == {s \in Slots : task[s].pc # "free"}

\* the dispatch goroutines waiting inside bo.Wait or inside rl.Wait
InGate == {s \in Slots : task[s].pc \in {"bo_sleep", "rl_wait"}}

\* C2: Engine.Run has returned (and the deferred writer.Close has run) only
\* when every dispatch goroutine it spawned has gone through Release: no
\* goroutine is left, the WaitGroup is at zero and no permit is held.
C2_ReturnAfterRelease ==
    runPc = "returned" =>
        /\ Running = {}
        /\ wg = 0
        /\ global = 0
        /\ browser = 0

\* C2 witness: Run has returned after a cancellation, and a dispatch goroutine
\* it had spawned recorded an error before releasing.
C2_Witness ==
    /\ runPc = "returned"
    /\ ctxDone
    /\ \E h \in Hosts : attempts[h] > 0

\* C3: once the top-level context is cancelled, Engine.Run eventually returns.
C3_CancelReturns == ctxDone ~> (runPc = "returned")

\* C4: the permits held are no more than the goroutines outside the two gates
\* plus the one Engine.Run holds between Acquire and the go statement: a
\* goroutine waiting inside bo.Wait or rl.Wait holds none.
C4_GateHoldsNoPermit ==
    global <= Cardinality(Running \ InGate) + (IF runPc \in AcquiredPcs THEN 1 ELSE 0)

\* C5: in scheduled mode Scheduler.Wait returns nil only while inWindow is true.
C5_PausedBetweenWindows ==
    [][(mode = "scheduled" /\ runPc \in SchedPcs /\ runPc' = "admit_ready") => inWindow]_vars

\* C6: when the context is cancelled and Admit is parked in cond.Wait, the
\* cancellation's Broadcast is still to come.
C6_CancelWakesAdmit ==
    (ctxDone /\ runPc = "admit_parked") => afterFunc = "pending"

\* C7: Admit returns nil only after the first sample and with the latest sample
\* under the limit; and with a cpu threshold of 0, where every sample is over,
\* no permit is taken and no goroutine spawned, and the loop is left only
\* after cancellation.
C7_AdmitOnlyUnderLimit ==
    /\ [][(runPc \in AdmitPcs /\ runPc' = "acquire") => (ready /\ ~overLimit)]_vars
    /\ [](cpuThresholdPct = 0 =>
            /\ Running = {}
            /\ global = 0
            /\ runPc \notin {"acquire", "acquire_browser", "spawn"}
            /\ (~ctxDone => runPc \notin {"drain", "returned"}))

\* C7 witness: every sample is over the limit and the loop is parked in Admit,
\* alive and uncancelled.
C7_Witness ==
    /\ cpuThresholdPct = 0
    /\ ready
    /\ overLimit
    /\ runPc = "admit_parked"
    /\ ~ctxDone

\* C8: a result Execute returned because of the cancellation is classified
\* Fatal, and the dispatch goroutine goes to Release with the registry untouched.
C8_AbortIsFatal ==
    [][\A s \in Slots : task[s].pc = "exec" =>
          \A r \in Execute(TypeOf(task[s].tgt)) :
              (r.aborted /\ React(s, r)) =>
                  /\ ResultClass(r) = "Fatal"
                  /\ task'[s].pc = "release"
                  /\ UNCHANGED boV]_vars

\* what the reaction table says the registry is after result r for host h
TableAttempts(h, r) ==
    IF ResultClass(r) = "None" THEN [attempts EXCEPT ![h] = 0] ELSE attempts

\* whether the reaction table says RecordError(h) is called for result r
TableRecords(h, r) == ResultClass(r) = "Transient" /\ attempts[h] < MaxAttempts

\* C9: for each result the registry changes as the reaction table says:
\* class None resets the host, Transient under max_attempts calls RecordError
\* once (one increment of the host's attempts, then Release), and everything
\* else leaves the registry unchanged.
C9_ReactionTable ==
    [][\A s \in Slots :
          /\ task[s].pc = "exec" =>
                \A r \in Execute(TypeOf(task[s].tgt)) :
                    React(s, r) =>
                        /\ attempts' = TableAttempts(HostOf(task[s].tgt), r)
                        /\ task'[s].pc = IF TableRecords(HostOf(task[s].tgt), r) THEN "record" ELSE "release"
          /\ (task[s].pc = "record" /\ task'[s] # task[s]) =>
                /\ attempts' = [attempts EXCEPT ![HostOf(task[s].tgt)] = @ + 1]
                /\ task'[s].pc = "release"]_vars

\* C9 witness: a goroutine is about to call RecordError for a host that
\* already has a recorded failure.
C9_Witness ==
    \E s \in Slots :
        /\ task[s].pc = "record"
        /\ attempts[HostOf(task[s].tgt)] >= 1

(***************************************************************************)
(* SpecBackoff: NBackoffProcs goroutines call RecordError, RecordSuccess   *)
(* and Wait on one BackoffRegistry; a step is one critical section of      *)
(* r.mu or of db.mu (internal/ratelimit/backoff.go).                       *)
(***************************************************************************)
\* db.attempts++ taken for an assignment of 1
NextAttemptsOff(a) == 1

\* db.attempts++
NextAttempts(a) == a + 1

\* &domainBackoff{}: an object nothing refers to
NewDb ==
    CHOOSE o \in DbIds :
        /\ \A d \in Hosts : domains[d] # o
        /\ \A q \in BackoffProcs : rdb[q] # o

\* the attempts of the objects after a step; an object nothing refers to any
\* more is garbage and counts as zeroed
Heap(val, pend, doms, dbs) ==
    LET live == {o \in DbIds :
                    (\E d \in Hosts : doms[d] = o) \/ (\E q \in BackoffProcs : dbs[q] = o)} IN
    /\ dbAttempts' = [o \in DbIds |-> IF o \in live THEN val[o] ELSE 0]
    /\ dbPending' = pend \cap live

\* the local dbs once the call of goroutine p has returned
Returned(p) == [rdb EXCEPT ![p] = 0]

\* r.domains after delete(r.domains, d)
Deleted(d) == [domains EXCEPT ![d] = 0]

\* the call of goroutine p returns
Return(p) ==
    /\ rpc' = [rpc EXCEPT ![p] = "idle"]
    /\ rdom' = [rdom EXCEPT ![p] = "none"]
    /\ rdb' = Returned(p)

\* delete(r.domains, domain) under r.mu; RecordError calls that hold the
\* deleted entry are from now on calls from before the delete
Delete(d) ==
    /\ domains' = Deleted(d)
    /\ cnt' = [cnt EXCEPT ![d] = 0]
    /\ rstale' = [q \in BackoffProcs |-> rstale[q] \/ (rpc[q] = "rec_incr" /\ rdom[q] = d)]

\* RecordError(d), r.mu section: db, ok := r.domains[domain], created when absent
RecordErrorLookup(p, d) ==
    /\ rpc[p] = "idle"
    /\ ncalls < MaxCalls
    /\ ncalls' = ncalls + 1
    /\ LET db == IF domains[d] = 0 THEN NewDb ELSE domains[d] IN
        /\ domains' = [domains EXCEPT ![d] = db]
        /\ rdb' = [rdb EXCEPT ![p] = db]
        /\ Heap(dbAttempts, dbPending, [domains EXCEPT ![d] = db], [rdb EXCEPT ![p] = db])
    /\ rpc' = [rpc EXCEPT ![p] = "rec_incr"]
    /\ rdom' = [rdom EXCEPT ![p] = d]
    /\ UNCHANGED <<rstale, cnt, nonRegV>>

\* RecordError(d), db.mu section: db.attempts++ and db.nextAllowed =
\* time.Now().Add(delay) with delay > 0; a Wait asleep on the until it read
\* from this object now holds a timer unrelated to the new nextAllowed
RecordErrorIncrement(p) ==
    /\ rpc[p] = "rec_incr"
    /\ cnt' = IF rstale[p] THEN cnt ELSE [cnt EXCEPT ![rdom[p]] = @ + 1]
    /\ rstale' = [rstale EXCEPT ![p] = FALSE]
    /\ rpc' = [q \in BackoffProcs |->
                IF q = p THEN "idle"
                ELSE IF rpc[q] = "wait_sleep" /\ rdb[q] = rdb[p] THEN "wait_sleep_moved"
                ELSE rpc[q]]
    /\ rdom' = [rdom EXCEPT ![p] = "none"]
    /\ rdb' = Returned(p)
    /\ Heap([dbAttempts EXCEPT ![rdb[p]] = NextAttempts(@)], dbPending \cup {rdb[p]},
            domains, Returned(p))
    /\ UNCHANGED <<domains, ncalls, nonRegV>>

\* time passes db.nextAllowed
DelayElapses(o) ==
    /\ o \in dbPending
    /\ dbPending' = dbPending \ {o}
    /\ UNCHANGED <<domains, dbAttempts, rpc, rdom, rdb, rstale, cnt, ncalls, nonRegV>>

\* RecordSuccess(d)
RecordSuccessCall(p, d) ==
    /\ rpc[p] = "idle"
    /\ ncalls < MaxCalls
    /\ ncalls' = ncalls + 1
    /\ Delete(d)
    /\ Heap(dbAttempts, dbPending, Deleted(d), rdb)
    /\ UNCHANGED <<rpc, rdom, rdb, nonRegV>>

\* Wait(ctx, d), r.mu section: db, ok := r.domains[domain]; !ok returns nil
WaitLookup(p, d) ==
    /\ rpc[p] = "idle"
    /\ ncalls < MaxCalls
    /\ ncalls' = ncalls + 1
    /\ IF domains[d] = 0
       THEN UNCHANGED <<rpc, rdom, rdb>>
       ELSE /\ rpc' = [rpc EXCEPT ![p] = "wait_read"]
            /\ rdom' = [rdom EXCEPT ![p] = d]
            /\ rdb' = [rdb EXCEPT ![p] = domains[d]]
    /\ UNCHANGED <<domains, dbAttempts, dbPending, rstale, cnt, nonRegV>>

EvictableOff(a) == a > MaxAttempts

\* Wait: if attempts >= r.maxAttempts
Evictable(a) == a >= MaxAttempts

\* Wait, db.mu section: until and attempts are read.  remaining <= 0: with
\* attempts >= r.maxAttempts the eviction is next, otherwise Wait returns;
\* remaining > 0: Wait sleeps in the select
WaitRead(p) ==
    /\ rpc[p] = "wait_read"
    /\ IF rdb[p] \in dbPending
       THEN /\ rpc' = [rpc EXCEPT ![p] = "wait_sleep"]
            /\ UNCHANGED <<rdom, rdb, dbAttempts, dbPending>>
       ELSE IF Evictable(dbAttempts[rdb[p]])
       THEN /\ rpc' = [rpc EXCEPT ![p] = "wait_evict"]
            /\ UNCHANGED <<rdom, rdb, dbAttempts, dbPending>>
       ELSE /\ Return(p)
            /\ Heap(dbAttempts, dbPending, domains, Returned(p))
    /\ UNCHANGED <<domains, rstale, cnt, ncalls, nonRegV>>

\* Wait, case <-time.After(remaining): the until that Wait read has passed
WaitSleepTimer(p) ==
    /\ \/ rpc[p] = "wait_sleep" /\ rdb[p] \notin dbPending
       \/ rpc[p] = "wait_sleep_moved"
    /\ Return(p)
    /\ Heap(dbAttempts, dbPending, domains, Returned(p))
    /\ UNCHANGED <<domains, rstale, cnt, ncalls, nonRegV>>

\* Wait, second r.mu section: delete(r.domains, domain)
WaitEvict(p) ==
    /\ rpc[p] = "wait_evict"
    /\ Delete(rdom[p])
    /\ Return(p)
    /\ Heap(dbAttempts, dbPending, Deleted(rdom[p]), Returned(p))
    /\ UNCHANGED <<ncalls, nonRegV>>

\* NewBackoffRegistry, and the goroutines about to call it
InitBackoff ==
    /\ ctxDone = FALSE
    /\ NewPool(MaxWorkers, MaxBrowserWorkers)
    /\ CallersIdle
    /\ mode = "human"
    /\ cpuThresholdPct = 0
    /\ runPc = "unused"
    /\ cur = 0
    /\ ready = FALSE
    /\ overLimit = FALSE
    /\ pollPc = "unused"
    /\ afterFunc = "none"
    /\ inWindow = FALSE
    /\ closeTimer = FALSE
    /\ closeFns = 0
    /\ cronOn = FALSE
    /\ task = [s \in Slots |-> NoTask]
    /\ attempts = [h \in Hosts |-> 0]
    /\ blocked = [h \in Hosts |-> FALSE]
    /\ domains = [d \in Hosts |-> 0]
    /\ dbAttempts = [o \in DbIds |-> 0]
    /\ dbPending = {}
    /\ rpc = [p \in BackoffProcs |-> "idle"]
    /\ rdom = [p \in BackoffProcs |-> "none"]
    /\ rdb = [p \in BackoffProcs |-> 0]
    /\ rstale = [p \in BackoffProcs |-> FALSE]
    /\ cnt = [d \in Hosts |-> 0]
    /\ ncalls = 0
    /\ ExtUnused

NextBackoff ==
    \/ \E p \in BackoffProcs, d \in Hosts : RecordErrorLookup(p, d)
    \/ \E p \in BackoffProcs : RecordErrorIncrement(p)
    \/ \E p \in BackoffProcs, d \in Hosts : RecordSuccessCall(p, d)
    \/ \E p \in BackoffProcs, d \in Hosts : WaitLookup(p, d)
    \/ \E p \in BackoffProcs : WaitRead(p)
    \/ \E p \in BackoffProcs : WaitSleepTimer(p)
    \/ \E p \in BackoffProcs : WaitEvict(p)
    \/ \E o \in DbIds : DelayElapses(o)

SpecBackoff == InitBackoff /\ [][NextBackoff]_vars

\* BackoffRegistry.Attempts(d) run on the fine-grained registry
RegistryAttempts(d) == IF domains[d] = 0 THEN 0 ELSE dbAttempts[domains[d]]

\* C10: for every domain d, Attempts(d) is the number of RecordError(d) calls
\* made since the last RecordSuccess(d) or eviction of d (0 right after one),
\* whatever the interleaving of the calls and whatever is called on other domains.
C10_AttemptsCountErrors == \A d \in Hosts : RegistryAttempts(d) = cnt[d]

\* C10 witness: two RecordError calls on one domain have completed, a third
\* runs concurrently, and the other domain has a different count.
C10_Witness ==
    \E d \in Hosts, e \in Hosts, p \in BackoffProcs :
        /\ RegistryAttempts(d) = 2
        /\ cnt[d] = 2
        /\ rpc[p] = "rec_incr"
        /\ rdom[p] = d
        /\ ~rstale[p]
        /\ e # d
        /\ RegistryAttempts(e) # 2

\* C12: Wait(d) returns at once and touches nothing when d has no entry; when
\* the delay it read has elapsed it returns without sleeping, going on to the
\* eviction exactly when the attempts it read are >= max_attempts, and
\* otherwise leaving the map and every entry's attempts as they were; the
\* eviction leaves Attempts(d) = 0.
C12_WaitContract ==
    [][\A p \in BackoffProcs :
        /\ \A d \in Hosts :
            (domains[d] = 0 /\ WaitLookup(p, d))
                => (rpc'[p] = "idle" /\ UNCHANGED <<domains, dbAttempts, dbPending>>)
        /\ (rpc[p] = "wait_read" /\ rpc'[p] # "wait_read" /\ rdb[p] \notin dbPending)
                => IF dbAttempts[rdb[p]] >= MaxAttempts
                   THEN rpc'[p] = "wait_evict"
                   ELSE /\ rpc'[p] = "idle"
                        /\ domains' = domains
                        /\ \A d \in Hosts : RegistryAttempts(d)' = RegistryAttempts(d)
        /\ (rpc[p] # "wait_evict" /\ rpc'[p] = "wait_evict")
                => /\ rpc[p] = "wait_read"
                   /\ rdb[p] \notin dbPending
                   /\ dbAttempts[rdb[p]] >= MaxAttempts
        /\ \A d \in Hosts :
            (rpc[p] = "wait_evict" /\ rdom[p] = d /\ rpc'[p] = "idle")
                => RegistryAttempts(d)' = 0
    ]_vars

\* C12 witness: a Wait that read an elapsed delay and attempts = max_attempts
\* is about to evict the entry it read, while the other domain holds an entry
\* under max_attempts whose delay has elapsed too.
C12_Witness ==
    \E p \in BackoffProcs, e \in Hosts :
        /\ rpc[p] = "wait_evict"
        /\ domains[rdom[p]] = rdb[p]
        /\ dbAttempts[rdb[p]] = MaxAttempts
        /\ e # rdom[p]
        /\ RegistryAttempts(e) = 1
        /\ domains[e] \notin dbPending

(***************************************************************************)
(* SpecJitter: BackoffRegistry.decorrelatedJitter, the delay RecordError   *)
(* returns, on registries whose parameters pass config validation.  The    *)
(* float64 values are exact rationals here: milliseconds scaled by         *)
(* JitterUnit, the random factor in steps of 1 / RandSteps.                *)
(***************************************************************************)
\* backoff.initial_ms and backoff.max_ms, with max_ms >= initial_ms > 0
InitialMsValues == {1, 3, 100}

MaxMsValues == {3, 100, 450}

\* backoff.multiplier > 1 as <<numerator, denominator>>: 2.0 and 1.5
Multipliers == {<<2, 1>>, <<3, 2>>}

\* one millisecond in the scaled unit: every ceiling of the loop is a whole number
JitterUnit == 2 ^ MaxJitterAttempts

\* the for loop with its bound off by one: i <= attempt
LoopRunsOff(attempt) == attempt

\* for i := 1; i < attempt; i++: the number of times the loop body can run
LoopRuns(attempt) == attempt - 1

\* the loop body, runs more times from ceiling c (scaled): ceiling *= r.multiplier;
\* if ceiling > cap { ceiling = cap; break }
RECURSIVE CeilingLoop(_, _, _, _)
CeilingLoop(runs, c, mult, cap) ==
    IF runs = 0 THEN c
    ELSE LET next == (c * mult[1]) \div mult[2] IN
         IF next > cap THEN cap ELSE CeilingLoop(runs - 1, next, mult, cap)

\* decorrelatedJitter(attempt) with rand.Float64() = r / RandSteps, in
\* milliseconds: time.Duration(jittered) drops the fraction
decorrelatedJitter(reg, attempt, r) ==
    LET base == reg.initialMs * JitterUnit
        cap == reg.maxMs * JitterUnit
        ceiling == CeilingLoop(LoopRuns(attempt), base, reg.multiplier, cap)
        jittered == base * RandSteps + r * (ceiling - base)
        capped == IF jittered > cap * RandSteps THEN cap * RandSteps ELSE jittered
    IN  capped \div (JitterUnit * RandSteps)

\* NewBackoffRegistry(initialMs, maxMs, multiplier, maxAttempts), no error recorded yet
InitJitter ==
    /\ \E i \in InitialMsValues, m \in MaxMsValues, x \in Multipliers :
        /\ i <= m
        /\ jit = [initialMs |-> i, maxMs |-> m, multiplier |-> x, attempts |-> 0, delay |-> 0]
    /\ ctxDone = FALSE
    /\ NewPool(MaxWorkers, MaxBrowserWorkers)
    /\ CallersIdle
    /\ mode = "human"
    /\ cpuThresholdPct = 0
    /\ runPc = "unused"
    /\ cur = 0
    /\ ready = FALSE
    /\ overLimit = FALSE
    /\ pollPc = "unused"
    /\ afterFunc = "none"
    /\ inWindow = FALSE
    /\ closeTimer = FALSE
    /\ closeFns = 0
    /\ cronOn = FALSE
    /\ task = [s \in Slots |-> NoTask]
    /\ attempts = [h \in Hosts |-> 0]
    /\ blocked = [h \in Hosts |-> FALSE]
    /\ domains = [d \in Hosts |-> 0]
    /\ dbAttempts = [o \in DbIds |-> 0]
    /\ dbPending = {}
    /\ rpc = [p \in BackoffProcs |-> "unused"]
    /\ rdom = [p \in BackoffProcs |-> "none"]
    /\ rdb = [p \in BackoffProcs |-> 0]
    /\ rstale = [p \in BackoffProcs |-> FALSE]
    /\ cnt = [d \in Hosts |-> 0]
    /\ ncalls = 0
    /\ ReloadUnused
    /\ FunUnused({})

\* RecordError on the domain: db.attempts++; delay := r.decorrelatedJitter(db.attempts)
JitterRecordError ==
    /\ jit.attempts < MaxJitterAttempts
    /\ \E r \in 0..(RandSteps - 1) :
        jit' = [jit EXCEPT !.attempts = @ + 1,
                           !.delay = decorrelatedJitter(jit, jit.attempts + 1, r)]
    /\ UNCHANGED nonJitV

\* RecordSuccess on the domain: the entry is deleted, the next error is a first attempt
JitterRecordSuccess ==
    /\ jit.attempts > 0
    /\ jit' = [jit EXCEPT !.attempts = 0, !.delay = 0]
    /\ UNCHANGED nonJitV

NextJitter ==
    \/ JitterRecordError
    \/ JitterRecordSuccess

SpecJitter == InitJitter /\ [][NextJitter]_vars

\* C11: the delay a RecordError returned lies in [initial_ms, max_ms]; the
\* delay of a first attempt is initial_ms; the delay of the k-th consecutive
\* attempt is at most initial_ms * multiplier^(k-1).
C11_DelayBounds ==
    jit.attempts >= 1 =>
        /\ jit.initialMs <= jit.delay
        /\ jit.delay <= jit.maxMs
        /\ jit.attempts = 1 => jit.delay = jit.initialMs
        /\ jit.delay * jit.multiplier[2] ^ (jit.attempts - 1)
              <= jit.initialMs * jit.multiplier[1] ^ (jit.attempts - 1)

\* C11 witness: a third consecutive attempt drew a delay strictly between
\* initial_ms and max_ms, on a registry whose exponential ceiling passes
\* max_ms at the next attempt.
C11_Witness ==
    /\ jit.attempts = 3
    /\ jit.initialMs < jit.delay
    /\ jit.delay < jit.maxMs
    /\ jit.initialMs * jit.multiplier[1] ^ 3 > jit.maxMs * jit.multiplier[2] ^ 3

(***************************************************************************)
(* SpecReload: Engine.Reload, called by the SIGHUP goroutine, against the  *)
(* dispatch loop and the dispatch goroutines.  The engine's atomic         *)
(* pointers hold the number of the configuration their value was built     *)
(* from; each Reload stores them one after the other.  The gates between   *)
(* the loop's Pick and its go statement are those of Spec; here they only  *)
(* let time pass.                                                          *)
(***************************************************************************)
\* []config.TargetConfig: nothing, one target, one target, and a list whose weights sum to 0
TargetLists ==
    { <<>>,
      <<[url |-> "a", weight |-> 1]>>,
      <<[url |-> "b", weight |-> 1]>>,
      <<[url |-> "a", weight |-> 1], [url |-> "b", weight |-> -1]>> }

\* pacing.mode of the configurations
PacingModes == {"human", "rate_limited"}

\* *config.Config; the numeric parameters have the setting l, and two
\* consecutive settings differ in every one of them
MkConfig(t, m, l) ==
    [targets |-> t, mode |-> m, minDelayMs |-> 100 * l, maxDelayMs |-> 500 * l,
     rpm |-> 60 * l, maxAttempts |-> 1 + (l % 2), defaultRps |-> 10 * l]

\* totalWeight += t.Weight
RECURSIVE TotalWeight(_)
TotalWeight(targets) ==
    IF targets = <<>> THEN 0 ELSE Head(targets).weight + TotalWeight(Tail(targets))

NewSelectorFailsOff(targets) == Len(targets) = 0

\* task.NewSelector returns an error
NewSelectorFails(targets) == Len(targets) = 0 \/ TotalWeight(targets) <= 0

\* the configurations given to New (k = 0) and to the k-th Reload: every
\* target list and mode, the numeric parameters in a setting of their own
Configs(k) == {MkConfig(t, m, k + 1) : t \in TargetLists, m \in PacingModes}

\* the URLs Selector.Pick can return: the targets the alias table gives mass
PickSet(targets) == {targets[i].url : i \in {j \in DOMAIN targets : targets[j].weight > 0}}

\* ratelimit.NewBackoffRegistry(..., maxAttempts)
NewBackoffRegistry(c) == [maxAttempts |-> c.maxAttempts, attempts |-> [h \in Hosts |-> 0]]

\* ratelimit.NewRegistry(defaultRPS, perDomain)
NewRegistry(c) == [defaultRps |-> c.defaultRps, limiters |-> {}]

\* engine.NewScheduler(cfg.Pacing): the limiter is nil (0) outside rate_limited mode
NewScheduler(c) ==
    [mode |-> c.mode, minDelayMs |-> c.minDelayMs, maxDelayMs |-> c.maxDelayMs,
     activeRPM |-> IF c.mode = "rate_limited" THEN c.rpm ELSE 0,
     limiter |-> IF c.mode = "rate_limited" THEN 1 ELSE 0]

\* Scheduler.UpdatePacing(cfg): switch s.cfg.Mode; n + 1 names the limiter
\* built during the n-th Reload
UpdatePacing(s, c, n) ==
    IF s.mode = "human"
    THEN [s EXCEPT !.minDelayMs = c.minDelayMs, !.maxDelayMs = c.maxDelayMs]
    ELSE IF s.mode = "rate_limited"
    THEN [s EXCEPT !.limiter = n + 1, !.activeRPM = c.rpm]
    ELSE s

\* what the garbage collector leaves of the configurations, given the
\* numbers still referred to: by e.cfg, by e.selector, by the last Reload call
LiveCfgs(cs, live) == [g \in Gens |-> IF g \in live THEN cs[g] ELSE NoCfg]

\* the backoff registries the dispatch goroutines of tasks ts hold in bo
HeldBackoff(ts) == {ts[s].bo : s \in {x \in ReloadSlots : ts[x].pc \in {"bo_wait", "rl_wait", "exec"}}}

\* the rate-limit registries they hold in rl
HeldRl(ts) == {ts[s].rl : s \in {x \in ReloadSlots : ts[x].pc \in {"load_bo", "bo_wait", "rl_wait", "exec"}}}

\* what the garbage collector leaves of the registries, given the engine's
\* pointer and the dispatch goroutines
LiveBackoff(regs, e, ts) ==
    [g \in Gens |-> IF g = e \/ g \in HeldBackoff(ts) THEN regs[g] ELSE NoBackoffRegistry]

LiveRl(regs, e, ts) ==
    [g \in Gens |-> IF g = e \/ g \in HeldRl(ts) THEN regs[g] ELSE NoRegistry]

\* engine.New(cfg, m) with a configuration NewSelector accepts; the loop runs
InitReload ==
    /\ \E c \in Configs(0) :
        /\ ~NewSelectorFails(c.targets)
        /\ cfgs = [g \in Gens |-> IF g = 0 THEN c ELSE NoCfg]
        /\ boReg = [g \in Gens |-> IF g = 0 THEN NewBackoffRegistry(c) ELSE NoBackoffRegistry]
        /\ rlReg = [g \in Gens |-> IF g = 0 THEN NewRegistry(c) ELSE NoRegistry]
        /\ sched = NewScheduler(c)
    /\ nReloads = 0
    /\ eCfg = 0
    /\ eSelector = 0
    /\ eRl = 0
    /\ eBackoff = 0
    /\ relPc = "idle"
    /\ relOld = 0
    /\ relLast = 0
    /\ relErr = FALSE
    /\ loopCur = NoDispatch
    /\ rtask = [s \in ReloadSlots |-> NoDispatch]
    /\ JitterUnused
    /\ ctxDone = FALSE
    /\ NewPool(MaxWorkers, MaxBrowserWorkers)
    /\ CallersIdle
    /\ mode = "human"
    /\ cpuThresholdPct = 0
    /\ runPc = "unused"
    /\ cur = 0
    /\ ready = FALSE
    /\ overLimit = FALSE
    /\ pollPc = "unused"
    /\ afterFunc = "none"
    /\ inWindow = FALSE
    /\ closeTimer = FALSE
    /\ closeFns = 0
    /\ cronOn = FALSE
    /\ task = [s \in Slots |-> NoTask]
    /\ attempts = [h \in Hosts |-> 0]
    /\ blocked = [h \in Hosts |-> FALSE]
    /\ domains = [d \in Hosts |-> 0]
    /\ dbAttempts = [o \in DbIds |-> 0]
    /\ dbPending = {}
    /\ rpc = [p \in BackoffProcs |-> "unused"]
    /\ rdom = [p \in BackoffProcs |-> "none"]
    /\ rdb = [p \in BackoffProcs |-> 0]
    /\ rstale = [p \in BackoffProcs |-> FALSE]
    /\ cnt = [d \in Hosts |-> 0]
    /\ ncalls = 0
    /\ FunUnused({})

\* Reload(newCfg): old := e.cfg.Load(); sel, err := task.NewSelector(newCfg.Targets);
\* on an error Reload returns it
ReloadCall ==
    /\ relPc = "idle"
    /\ nReloads < MaxReloads
    /\ nReloads' = nReloads + 1
    /\ relOld' = eCfg
    /\ \E c \in Configs(nReloads + 1) :
        /\ cfgs' = LiveCfgs([cfgs EXCEPT ![nReloads + 1] = c], {eCfg, eSelector, nReloads + 1})
        /\ IF NewSelectorFails(c.targets)
           THEN relPc' = "idle" /\ relErr' = TRUE
           ELSE relPc' = "store_selector" /\ relErr' = FALSE
    /\ UNCHANGED <<eCfg, eSelector, eRl, eBackoff, boReg, rlReg, sched, relLast, loopCur, rtask, nonRelV>>

\* e.selector.Store(sel)
ReloadStoreSelector ==
    /\ relPc = "store_selector"
    /\ eSelector' = nReloads
    /\ cfgs' = LiveCfgs(cfgs, {eCfg, nReloads})
    /\ relPc' = "store_rl"
    /\ UNCHANGED <<nReloads, eCfg, eRl, eBackoff, boReg, rlReg, sched, relOld, relLast,
                   relErr, loopCur, rtask, nonRelV>>

\* e.rl.Store(ratelimit.NewRegistry(...))
ReloadStoreRl ==
    /\ relPc = "store_rl"
    /\ rlReg' = LiveRl([rlReg EXCEPT ![nReloads] = NewRegistry(cfgs[nReloads])], nReloads, rtask)
    /\ eRl' = nReloads
    /\ relPc' = "store_backoff"
    /\ UNCHANGED <<cfgs, nReloads, eCfg, eSelector, eBackoff, boReg, sched, relOld, relLast,
                   relErr, loopCur, rtask, nonRelV>>

FreshBackoffRegistryOff(c) == [boReg[eBackoff] EXCEPT !.maxAttempts = c.maxAttempts]

\* the registry Reload stores
FreshBackoffRegistry(c) == NewBackoffRegistry(c)

\* e.backoff.Store(ratelimit.NewBackoffRegistry(...))
ReloadStoreBackoff ==
    /\ relPc = "store_backoff"
    /\ boReg' = LiveBackoff([boReg EXCEPT ![nReloads] = FreshBackoffRegistry(cfgs[nReloads])],
                             nReloads, rtask)
    /\ eBackoff' = nReloads
    /\ relPc' = "pacing"
    /\ UNCHANGED <<cfgs, nReloads, eCfg, eSelector, eRl, rlReg, sched, relOld, relLast,
                   relErr, loopCur, rtask, nonRelV>>

\* if old.Pacing.Mode != newCfg.Pacing.Mode { warn } else { e.scheduler.UpdatePacing(newCfg.Pacing) }
ReloadPacing ==
    /\ relPc = "pacing"
    /\ sched' = IF cfgs[relOld].mode # cfgs[nReloads].mode
                THEN sched
                ELSE UpdatePacing(sched, cfgs[nReloads], nReloads)
    /\ relPc' = "store_cfg"
    /\ UNCHANGED <<cfgs, nReloads, eCfg, eSelector, eRl, eBackoff, boReg, rlReg, relOld, relLast,
                   relErr, loopCur, rtask, nonRelV>>

StoredCfgOff(n) == relOld

\* the configuration e.cfg.Store(newCfg) stores
StoredCfg(n) == n

\* e.cfg.Store(newCfg); return nil
ReloadStoreCfg ==
    /\ relPc = "store_cfg"
    /\ eCfg' = StoredCfg(nReloads)
    /\ cfgs' = LiveCfgs(cfgs, {StoredCfg(nReloads), eSelector, nReloads})
    /\ relLast' = nReloads
    /\ relPc' = "idle"
    /\ UNCHANGED <<nReloads, eSelector, eRl, eBackoff, boReg, rlReg, sched, relOld,
                   relErr, loopCur, rtask, nonRelV>>

\* Run: t := e.selector.Load().Pick()
LoopPick ==
    /\ loopCur.pc = "free"
    /\ \E u \in PickSet(cfgs[eSelector].targets) :
        loopCur' = [NoDispatch EXCEPT !.pc = "picked", !.url = u, !.sel = eSelector]
    /\ UNCHANGED <<cfgs, nReloads, eCfg, eSelector, eRl, eBackoff, boReg, rlReg, sched, relPc,
                   relOld, relLast, relErr, rtask, nonRelV>>

\* Run: e.pool.Acquire(ctx, t.Type) finds a slot; go e.dispatch(ctx, t)
LoopSpawn(s) ==
    /\ loopCur.pc = "picked"
    /\ rtask[s].pc = "free"
    /\ rtask' = [rtask EXCEPT ![s] = [loopCur EXCEPT !.pc = "load_rl"]]
    /\ loopCur' = NoDispatch
    /\ UNCHANGED <<cfgs, nReloads, eCfg, eSelector, eRl, eBackoff, boReg, rlReg, sched, relPc,
                   relOld, relLast, relErr, nonRelV>>

\* dispatch: rl := e.rl.Load()
DispatchLoadRl(s) ==
    /\ rtask[s].pc = "load_rl"
    /\ rtask' = [rtask EXCEPT ![s].rl = eRl, ![s].pc = "load_bo"]
    /\ UNCHANGED <<cfgs, nReloads, eCfg, eSelector, eRl, eBackoff, boReg, rlReg, sched, relPc,
                   relOld, relLast, relErr, loopCur, nonRelV>>

\* dispatch: bo := e.backoff.Load()
DispatchLoadBo(s) ==
    /\ rtask[s].pc = "load_bo"
    /\ rtask' = [rtask EXCEPT ![s].bo = eBackoff, ![s].pc = "bo_wait"]
    /\ UNCHANGED <<cfgs, nReloads, eCfg, eSelector, eRl, eBackoff, boReg, rlReg, sched, relPc,
                   relOld, relLast, relErr, loopCur, nonRelV>>

TaskBackoffOff(s) == eBackoff

\* the registries a dispatch goroutine calls: its locals bo and rl
TaskBackoff(s) == rtask[s].bo

TaskRl(s) == rtask[s].rl

\* dispatch: bo.Wait(ctx, host) returns nil; it evicts an entry that reached
\* max attempts once its delay has elapsed
DispatchBackoffWait(s) ==
    /\ rtask[s].pc = "bo_wait"
    /\ LET g == TaskBackoff(s)
           h == rtask[s].url IN
        \E elapsed \in BOOLEAN :
            boReg' = IF elapsed /\ boReg[g].attempts[h] >= 1
                        /\ boReg[g].attempts[h] >= boReg[g].maxAttempts
                     THEN [boReg EXCEPT ![g].attempts[h] = 0]
                     ELSE boReg
    /\ rtask' = [rtask EXCEPT ![s].pc = "rl_wait"]
    /\ UNCHANGED <<cfgs, nReloads, eCfg, eSelector, eRl, eBackoff, rlReg, sched, relPc,
                   relOld, relLast, relErr, loopCur, nonRelV>>

\* dispatch: rl.Wait(ctx, host) returns nil; the host's limiter exists from now on
DispatchRateLimitWait(s) ==
    /\ rtask[s].pc = "rl_wait"
    /\ rlReg' = [rlReg EXCEPT ![TaskRl(s)].limiters = @ \cup {rtask[s].url}]
    /\ rtask' = [rtask EXCEPT ![s].pc = "exec"]
    /\ UNCHANGED <<cfgs, nReloads, eCfg, eSelector, eRl, eBackoff, boReg, sched, relPc,
                   relOld, relLast, relErr, loopCur, nonRelV>>

\* dispatch: drv.Execute and the reaction to the result's class on bo, then
\* the deferred e.pool.Release
DispatchExecute(s, class) ==
    /\ rtask[s].pc = "exec"
    /\ LET g == TaskBackoff(s)
           h == rtask[s].url
           freed == [rtask EXCEPT ![s] = NoDispatch]
           reacted == IF class = "transient" /\ boReg[g].attempts[h] < boReg[g].maxAttempts
                      THEN [boReg EXCEPT ![g].attempts[h] = @ + 1]
                      ELSE IF class = "none"
                      THEN [boReg EXCEPT ![g].attempts[h] = 0]
                      ELSE boReg IN
        /\ rtask' = freed
        /\ boReg' = LiveBackoff(reacted, eBackoff, freed)
        /\ rlReg' = LiveRl(rlReg, eRl, freed)
    /\ UNCHANGED <<cfgs, nReloads, eCfg, eSelector, eRl, eBackoff, sched, relPc,
                   relOld, relLast, relErr, loopCur, nonRelV>>

NextReload ==
    \/ ReloadCall
    \/ ReloadStoreSelector
    \/ ReloadStoreRl
    \/ ReloadStoreBackoff
    \/ ReloadPacing
    \/ ReloadStoreCfg
    \/ LoopPick
    \/ \E s \in ReloadSlots : LoopSpawn(s)
    \/ \E s \in ReloadSlots : DispatchLoadRl(s)
    \/ \E s \in ReloadSlots : DispatchLoadBo(s)
    \/ \E s \in ReloadSlots : DispatchBackoffWait(s)
    \/ \E s \in ReloadSlots : DispatchRateLimitWait(s)
    \/ \E s \in ReloadSlots, class \in {"none", "transient", "permanent", "fatal"} :
        DispatchExecute(s, class)

SpecReload == InitReload /\ [][NextReload]_vars

\* the positions at which a dispatch goroutine holds both registry snapshots
Snapshotted == {"bo_wait", "rl_wait", "exec"}

\* C13: a dispatch task keeps the rate-limit registry and the backoff registry
\* it loaded at its start until it ends, and every registry operation of a
\* task (the waits, Attempts / RecordError / RecordSuccess) lands on the
\* registry that task loaded, also when Reload has swapped the engine's
\* registries meanwhile: a registry's state only changes by a task that holds
\* it, by its construction in Reload, or by its collection.
C13_TaskRegistries ==
    [][/\ \A s \in ReloadSlots :
            (rtask[s].pc \in Snapshotted /\ rtask'[s].pc # "free")
                => (rtask'[s].bo = rtask[s].bo /\ rtask'[s].rl = rtask[s].rl)
       /\ \A g \in Gens :
            boReg'[g] # boReg[g]
                => \/ relPc = "store_backoff" /\ g = nReloads
                   \/ boReg'[g] = NoBackoffRegistry
                   \/ \E s \in ReloadSlots :
                        /\ rtask[s].pc \in {"bo_wait", "exec"}
                        /\ rtask[s].bo = g
                        /\ rtask'[s] # rtask[s]
       /\ \A g \in Gens :
            rlReg'[g] # rlReg[g]
                => \/ relPc = "store_rl" /\ g = nReloads
                   \/ rlReg'[g] = NoRegistry
                   \/ \E s \in ReloadSlots :
                        /\ rtask[s].pc = "rl_wait"
                        /\ rtask[s].rl = g
                        /\ rtask'[s] # rtask[s]
    ]_vars

\* C13 witness: a task about to execute holds registries that Reload has
\* replaced since; its limiter and the host's recorded error are in the old
\* registries, the engine's current ones have neither.
C13_Witness ==
    \E s \in ReloadSlots :
        /\ rtask[s].pc = "exec"
        /\ rtask[s].bo # eBackoff
        /\ rtask[s].rl # eRl
        /\ rtask[s].url \in rlReg[rtask[s].rl].limiters
        /\ rtask[s].url \notin rlReg[eRl].limiters
        /\ boReg[rtask[s].bo].attempts[rtask[s].url] = 1
        /\ boReg[eBackoff].attempts[rtask[s].url] = 0

\* C14: no task is dispatched with a selector pick, a rate-limit registry and a
\* backoff registry that come from different configurations.
C14_OneConfiguration ==
    \A s \in ReloadSlots :
        rtask[s].pc \in Snapshotted
            => (rtask[s].sel = rtask[s].rl /\ rtask[s].rl = rtask[s].bo)

\* the URLs of a target list
Urls(targets) == {targets[i].url : i \in DOMAIN targets}

\* C15: once a Reload has returned nil, and until the next Reload takes
\* effect, the engine's current selector only picks targets of the
\* configuration that Reload was given, and the stored configuration
\* snapshot is that configuration.
C15_ReloadTakesEffect ==
    (relPc = "idle" /\ relLast >= 1)
        => /\ eCfg = relLast
           /\ eSelector = relLast
           /\ PickSet(cfgs[eSelector].targets) # {}
           /\ PickSet(cfgs[eSelector].targets) \subseteq Urls(cfgs[relLast].targets)

\* C15 witness: a Reload has returned nil while a task picked from the
\* previous selector, for a target the new configuration does not have, is
\* still in flight.
C15_Witness ==
    /\ relPc = "idle"
    /\ relLast >= 1
    /\ \E s \in ReloadSlots :
        /\ rtask[s].pc # "free"
        /\ rtask[s].sel # eSelector
        /\ rtask[s].url \notin Urls(cfgs[relLast].targets)

\* C16: the registries a Reload stores are fresh registries built from the new
\* parameters (Attempts(h) = 0 for every host, no limiter, max_attempts and
\* rps of the new configuration), whatever the registries they replace hold;
\* once the Reload has returned nil the engine's current registries are those.
C16_FreshRegistries ==
    [][/\ eBackoff' # eBackoff
            => /\ eBackoff' = nReloads
               /\ boReg'[eBackoff'].attempts = [h \in Hosts |-> 0]
               /\ boReg'[eBackoff'].maxAttempts = cfgs[nReloads].maxAttempts
       /\ eRl' # eRl
            => /\ eRl' = nReloads
               /\ rlReg'[eRl'].limiters = {}
               /\ rlReg'[eRl'].defaultRps = cfgs[nReloads].defaultRps
       /\ (relPc = "store_cfg" /\ relPc' = "idle")
            => /\ eBackoff = nReloads
               /\ eRl = nReloads
               /\ boReg[eBackoff].maxAttempts = cfgs[nReloads].maxAttempts
               /\ rlReg[eRl].defaultRps = cfgs[nReloads].defaultRps
    ]_vars

\* C16 witness: Reload has just stored its registries; a task still holds the
\* replaced ones, which have a limiter and a recorded error for its host,
\* and the new ones have neither and another max_attempts.
C16_Witness ==
    /\ relPc = "pacing"
    /\ \E s \in ReloadSlots :
        /\ rtask[s].pc \in Snapshotted
        /\ rtask[s].bo # eBackoff
        /\ rtask[s].rl # eRl
        /\ boReg[rtask[s].bo].attempts[rtask[s].url] >= 1
        /\ rtask[s].url \in rlReg[rtask[s].rl].limiters
        /\ boReg[eBackoff].attempts = [h \in Hosts |-> 0]
        /\ rlReg[eRl].limiters = {}
        /\ boReg[eBackoff].maxAttempts # boReg[rtask[s].bo].maxAttempts

C18_ModeMismatchLeavesPacing ==
    [][/\ sched'.mode = sched.mode
       /\ (relPc # "idle" /\ cfgs[nReloads].mode # sched.mode) => sched' = sched
    ]_vars

(***************************************************************************)
(* Further claims about the engine (Spec)                                  *)
(***************************************************************************)
\* C19: while the close timer installed by the most recent cron firing is
\* pending, the window that firing opened is open: nothing but that timer
\* sets inWindow to false.
C19_LastOpenerClosesWindow == closeTimer => inWindow

\* the positions of Engine.Run inside a blocking select of Scheduler.Wait or Pool.Acquire
RunGatePcs == {"sleep", "sched_poll", "lim_wait", "acquire", "acquire_browser"}

\* what Engine.Run waits for in these selects arrives
RunGateGranted ==
    \/ SleepTimer
    \/ ScheduledPollTimeout
    \/ LimiterGranted
    \/ RunAcquireGlobal
    \/ RunAcquireBrowser

\* what dispatch goroutine s waits for in bo.Wait or rl.Wait arrives
TaskGateGranted(s) == BackoffSleepTimer(s) \/ RateLimitGranted(s)

HeldGlobal == Cardinality(Running) + (IF runPc \in AcquiredPcs THEN 1 ELSE 0)

\* the browser permits taken and not given back
HeldBrowser ==
    Cardinality({s \in Running : TypeOf(task[s].tgt) = "browser"})
        + (IF runPc = "spawn" /\ TypeOf(cur) = "browser" THEN 1 ELSE 0)

\* C21: every permit acquired is released exactly once: the semaphores hold
\* exactly the permits of the goroutines between their Acquire and their
\* Release, the outstanding counter counts exactly the dispatch goroutines
\* (an Acquire cancelled in the browser select has given its global permit
\* back and is not counted), and once the drain is over the counter is zero
\* and both semaphores are empty.
C21_PermitsBalanced ==
    /\ global = HeldGlobal
    /\ browser = HeldBrowser
    /\ wg = Cardinality(Running)
    /\ (ctxDone /\ runPc \in {"drain", "returned"} /\ Running = {}) =>
           (global = 0 /\ browser = 0 /\ wg = 0)

\* C21 witness: Run was cancelled and drains while a dispatch goroutine of
\* the unknown driver type is on its way to the deferred Release.
C21_Witness ==
    /\ ctxDone
    /\ runPc = "drain"
    /\ \E s \in Slots : task[s].pc = "release" /\ TypeOf(task[s].tgt) \notin Drivers

(***************************************************************************)
(* SpecClassify: one call of ClassifyStatusCode, of ClassifyError, or of   *)
(* the DNS driver's rcodeToHTTP followed by dispatch's ClassifyStatusCode  *)
(***************************************************************************)
\* the int arguments of ClassifyStatusCode
StatusCodes == (0 - MaxStatusCode)..MaxStatusCode

\* the error arguments of ClassifyError
Errors == {"nil", "other"} \cup CtxErrors \cup {Wraps(e) : e \in CtxErrors}

\* the RCODEs of a dns.Msg: 4 bits of the header, 12 with EDNS
AllRcodes == 0..MaxRcode

InitClassify ==
    /\ \/ \E c \in StatusCodes :
            call = [pc |-> "ClassifyStatusCode", err |-> "nil", rcode |-> 0, code |-> c, class |-> "none"]
       \/ \E e \in Errors :
            call = [pc |-> "ClassifyError", err |-> e, rcode |-> 0, code |-> 0, class |-> "none"]
       \/ \E rc \in AllRcodes :
            call = [pc |-> "rcodeToHTTP", err |-> "nil", rcode |-> rc, code |-> 0, class |-> "none"]
    /\ ProgramUnused
    /\ FunUnused({"call"})

\* ClassifyStatusCode(code) returns
ClassifyStatusCodeReturns ==
    /\ call.pc \in {"ClassifyStatusCode", "dispatch"}
    /\ call' = [call EXCEPT !.class = ClassifyStatusCode(call.code),
                            !.pc = IF call.pc = "dispatch" THEN "dns returned" ELSE "status returned"]
    /\ UNCHANGED <<nonExtV, jit, relV, conV, lim, pace, slr, out, hn>>

\* ClassifyError(err) returns
ClassifyErrorReturns ==
    /\ call.pc = "ClassifyError"
    /\ call' = [call EXCEPT !.class = ClassifyError(call.err), !.pc = "error returned"]
    /\ UNCHANGED <<nonExtV, jit, relV, conV, lim, pace, slr, out, hn>>

\* DNSDriver.Execute: StatusCode: rcodeToHTTP(r.resp.Rcode), Error nil; dispatch
\* goes on to ClassifyStatusCode(result.StatusCode)
DNSExecuteReturns ==
    /\ call.pc = "rcodeToHTTP"
    /\ call' = [call EXCEPT !.code = rcodeToHTTP(call.rcode), !.pc = "dispatch"]
    /\ UNCHANGED <<nonExtV, jit, relV, conV, lim, pace, slr, out, hn>>

NextClassify ==
    \/ ClassifyStatusCodeReturns
    \/ ClassifyErrorReturns
    \/ DNSExecuteReturns

SpecClassify == InitClassify /\ [][NextClassify]_vars

\* C22: ClassifyStatusCode is total over the integers: 200-299 give None; 0,
\* 429 and every code >= 500 give Transient; every other code (1xx, 3xx, the
\* other 4xx, negative values) gives Permanent.
C22_StatusCodeClasses ==
    call.pc = "status returned" =>
        call.class = IF call.code >= 200 /\ call.code <= 299 THEN "None"
                     ELSE IF call.code = 0 \/ call.code = 429 \/ call.code >= 500 THEN "Transient"
                     ELSE "Permanent"

\* C22 witness: a negative code was classified.
C22_Witness == call.pc = "status returned" /\ call.code < 0 /\ call.class = "Permanent"

C24_RcodeClasses ==
    call.pc = "dns returned" =>
        /\ call.code = CASE call.rcode = 0 -> 200
                         [] call.rcode = 3 -> 404
                         [] call.rcode = 5 -> 403
                         [] call.rcode = 2 -> 503
                         [] OTHER -> 502
        /\ call.class = CASE call.rcode = 0 -> "None"
                          [] call.rcode \in {3, 5} -> "Permanent"
                          [] OTHER -> "Transient"

\* C24 witness: an RCODE outside the four named ones went through both maps.
C24_Witness == call.pc = "dns returned" /\ call.rcode = 16 /\ call.class = "Transient"

(***************************************************************************)
(* SpecLimiter: NLimiterProcs goroutines call Registry.Wait concurrently   *)
(* (internal/ratelimit/ratelimit.go)                                       *)
(***************************************************************************)
LimiterProcs == 1..NLimiterProcs

\* the domains Wait is called with
LimiterDomains == {"a", "b", "c"}

\* NewRegistry(defaultRPS, perDomain): rates in requests per second
DefaultRPS == 10

PerDomain == [d \in {"a"} |-> 2]

\* r.mu is held by nobody
MuFreeOff == TRUE

MuFree == lim.mu = 0

\* rate.NewLimiter(rate.Limit(rps), 1)
NewLimiter(rps) == [limit |-> rps, burst |-> 1]

InitLimiter ==
    /\ lim = [mu |-> 0,
              limiters |-> [d \in LimiterDomains |-> 0],
              made |-> <<>>,
              pc |-> [p \in LimiterProcs |-> "idle"],
              dom |-> [p \in LimiterProcs |-> "none"],
              ret |-> [p \in LimiterProcs |-> 0],
              asked |-> {},
              ncalls |-> 0]
    /\ ProgramUnused
    /\ FunUnused({"lim"})

\* a goroutine calls r.Wait(ctx, domain), which calls r.getLimiter(domain)
RegistryWait(p, d) ==
    /\ lim.pc[p] = "idle"
    /\ lim.ncalls < MaxLimiterCalls
    /\ lim' = [lim EXCEPT !.pc[p] = "lock", !.dom[p] = d, !.ret[p] = 0, !.ncalls = @ + 1]
    /\ UNCHANGED <<nonExtV, jit, relV, conV, call, pace, slr, out, hn>>

\* getLimiter: r.mu.Lock()
GetLimiterLock(p) ==
    /\ lim.pc[p] = "lock"
    /\ MuFree
    /\ lim' = [lim EXCEPT !.mu = p, !.pc[p] = "lookup"]
    /\ UNCHANGED <<nonExtV, jit, relV, conV, call, pace, slr, out, hn>>

\* getLimiter: if lim, ok := r.limiters[domain]; ok { return lim }, with the
\* deferred r.mu.Unlock()
GetLimiterLookup(p) ==
    /\ lim.pc[p] = "lookup"
    /\ LET d == lim.dom[p] IN
        IF lim.limiters[d] # 0
        THEN lim' = [lim EXCEPT !.ret[p] = lim.limiters[d], !.pc[p] = "lim_wait",
                                !.asked = @ \cup {d}, !.mu = 0]
        ELSE lim' = [lim EXCEPT !.pc[p] = "create"]
    /\ UNCHANGED <<nonExtV, jit, relV, conV, call, pace, slr, out, hn>>

\* getLimiter: rps := r.defaultRPS, or the override of r.perDomain;
\* lim := rate.NewLimiter(rate.Limit(rps), 1); r.limiters[domain] = lim;
\* return lim, with the deferred r.mu.Unlock()
GetLimiterCreate(p) ==
    /\ lim.pc[p] = "create"
    /\ LET d == lim.dom[p]
           rps == IF d \in DOMAIN PerDomain THEN PerDomain[d] ELSE DefaultRPS
           id == Len(lim.made) + 1
       IN  lim' = [lim EXCEPT !.made = Append(@, NewLimiter(rps)),
                              !.limiters[d] = id,
                              !.ret[p] = id,
                              !.pc[p] = "lim_wait",
                              !.asked = @ \cup {d},
                              !.mu = 0]
    /\ UNCHANGED <<nonExtV, jit, relV, conV, call, pace, slr, out, hn>>

\* lim.Wait(ctx) returns, and Registry.Wait with it
LimiterWaitReturns(p) ==
    /\ lim.pc[p] = "lim_wait"
    /\ lim' = [lim EXCEPT !.pc[p] = "idle", !.dom[p] = "none", !.ret[p] = 0]
    /\ UNCHANGED <<nonExtV, jit, relV, conV, call, pace, slr, out, hn>>

NextLimiter ==
    \/ \E p \in LimiterProcs, d \in LimiterDomains : RegistryWait(p, d)
    \/ \E p \in LimiterProcs : GetLimiterLock(p)
    \/ \E p \in LimiterProcs : GetLimiterLookup(p)
    \/ \E p \in LimiterProcs : GetLimiterCreate(p)
    \/ \E p \in LimiterProcs : LimiterWaitReturns(p)

SpecLimiter == InitLimiter /\ [][NextLimiter]_vars

\* the domains the registry holds a limiter for
LimiterKeys == {d \in LimiterDomains : lim.limiters[d] # 0}

\* C25: under any interleaving of concurrent Wait calls the registry holds
\* exactly one limiter for each domain ever looked up (each rate.Limiter
\* made is the one the map holds for one domain), made with the domain's
\* override rate when one is configured and with default_rps otherwise, and
\* with burst 1; no step replaces or removes a limiter the map holds, and
\* every caller gets the limiter the map holds for its domain.
C25_OneLimiterPerDomain ==
    /\ [](/\ lim.asked \subseteq LimiterKeys
          /\ Len(lim.made) = Cardinality(LimiterKeys)
          /\ \A d \in LimiterKeys :
                /\ lim.made[lim.limiters[d]].limit =
                       (IF d \in DOMAIN PerDomain THEN PerDomain[d] ELSE DefaultRPS)
                /\ lim.made[lim.limiters[d]].burst = 1
          /\ \A p \in LimiterProcs :
                lim.pc[p] = "lim_wait" => lim.ret[p] = lim.limiters[lim.dom[p]])
    /\ [][\A d \in LimiterKeys : lim.limiters[d]' = lim.limiters[d]]_vars

\* C25 witness: two goroutines wait on the one limiter of the overridden
\* domain while a third is about to look the same domain up.
C25_Witness ==
    /\ \E p, q \in LimiterProcs :
        /\ p # q
        /\ lim.pc[p] = "lim_wait" /\ lim.pc[q] = "lim_wait"
        /\ lim.dom[p] = "a" /\ lim.dom[q] = "a"
    /\ \E r \in LimiterProcs : lim.pc[r] = "lock" /\ lim.dom[r] = "a"
    /\ Cardinality(LimiterKeys) >= 2

(***************************************************************************)
(* SpecPacing: Engine.Run's successive Scheduler.Wait calls in human and   *)
(* in rate_limited mode, against a clock of 100 ms ticks; no UpdatePacing  *)
(***************************************************************************)
\* the clock's ticks in a minute
TicksPerMinute == 600

\* pacing.min_delay_ms and pacing.max_delay_ms, in ticks
DelayValues == 0..3

\* pacing.requests_per_minute
RpmValues == {200, 400, 600}

\* rand.Intn(200) milliseconds, in ticks
JitterValues == {0, 1}

\* a / b rounded up: a timer observed on the clock's ticks fires at the
\* first tick that is no earlier than its duration
Ceil(a, b) == (a + b - 1) \div b

\* the burst of the limiter made with a second token of room
SchedulerBurstOff == 1 + 1

\* NewScheduler: rate.NewLimiter(rate.Limit(rpm/60.0), 1)
SchedulerBurst == 1

\* the delays humanWait draws from, with max_delay_ms left out of the draw
HumanDelaysOff(minMs, maxMs) == IF maxMs <= minMs THEN {minMs} ELSE minMs..(maxMs + 1)

\* humanWait: minMs when maxMs <= minMs, else rand.Int63n(maxMs-minMs+1) + minMs
HumanDelays(minMs, maxMs) == IF maxMs <= minMs THEN {minMs} ELSE minMs..maxMs

\* NewScheduler(cfg.Pacing) of a validated configuration; the limiter's bucket
\* starts full; tokens are counted in 1/TicksPerMinute of a token
InitPacing ==
    /\ \/ \E lo \in DelayValues, hi \in DelayValues :
            /\ lo <= hi
            /\ pace = [NoPacing EXCEPT !.mode = "human", !.minMs = lo, !.maxMs = hi, !.pc = "idle"]
       \/ \E r \in RpmValues :
            pace = [NoPacing EXCEPT !.mode = "rate_limited", !.rpm = r, !.pc = "idle",
                                    !.burst = SchedulerBurst,
                                    !.tokens = SchedulerBurst * TicksPerMinute]
    /\ ProgramUnused
    /\ FunUnused({"pace"})

\* the clock advances, at any position: during a sleep, and between two Wait
\* calls while the loop is in Admit and Acquire
PaceTick ==
    /\ pace.now < MaxNow
    /\ pace' = [pace EXCEPT !.now = @ + 1]
    /\ UNCHANGED <<nonExtV, jit, relV, conV, call, lim, slr, out, hn>>

\* cancel() of the context passed to Wait
PaceCancel ==
    /\ ~pace.cancelled
    /\ pace.pc # "failed"
    /\ pace' = [pace EXCEPT !.cancelled = TRUE]
    /\ UNCHANGED <<nonExtV, jit, relV, conV, call, lim, slr, out, hn>>

\* Wait returns nil
WaitReturnsOk(pp) == [pp EXCEPT !.pc = "idle", !.oks = @ + 1, !.retAt = pp.now]

\* sleepCtx(ctx, d): nil at once when d <= 0, else the select on time.After(d)
\* and ctx.Done()
PaceSleepCtx(pp, d) == IF d <= 0 THEN WaitReturnsOk(pp) ELSE [pp EXCEPT !.pc = "sleep", !.wake = pp.now + d]

\* Wait in human mode: humanWait up to the select of sleepCtx
PaceHumanWait ==
    /\ pace.pc = "idle"
    /\ pace.mode = "human"
    /\ Len(pace.starts) < MaxWaits
    /\ \E d \in HumanDelays(pace.minMs, pace.maxMs) :
        pace' = PaceSleepCtx([pace EXCEPT !.starts = Append(@, pace.now), !.d = d], d)
    /\ UNCHANGED <<nonExtV, jit, relV, conV, call, lim, slr, out, hn>>

\* rate.Limiter: the bucket at time now, capped at burst
Advance(pp) ==
    LET t == pp.tokens + (pp.now - pp.last) * pp.rpm
        cap == pp.burst * TicksPerMinute
    IN  IF t > cap THEN cap ELSE t

\* Wait in rate_limited mode: rateLimitedWait up to lim.Wait's timer. lim.Wait
\* returns ctx.Err() when ctx is done already; otherwise it takes one token and
\* waits for the time the bucket needs to make up what is missing
PaceRateLimitedWait ==
    /\ pace.pc = "idle"
    /\ pace.mode = "rate_limited"
    /\ Len(pace.starts) < MaxWaits
    /\ LET pp == [pace EXCEPT !.starts = Append(@, pace.now)] IN
        IF pace.cancelled
        THEN pace' = [pp EXCEPT !.pc = "failed"]
        ELSE LET t == Advance(pace) - TicksPerMinute
                 wait == IF t < 0 THEN Ceil(0 - t, pace.rpm) ELSE 0
             IN  pace' = [pp EXCEPT !.tokens = t, !.last = pace.now,
                                    !.pc = IF wait = 0 THEN "jitter" ELSE "lim_timer",
                                    !.wake = pace.now + wait]
    /\ UNCHANGED <<nonExtV, jit, relV, conV, call, lim, slr, out, hn>>

\* lim.Wait: case <-t.C: return nil
PaceLimiterTimer ==
    /\ pace.pc = "lim_timer"
    /\ pace.now >= pace.wake
    /\ pace' = [pace EXCEPT !.pc = "jitter"]
    /\ UNCHANGED <<nonExtV, jit, relV, conV, call, lim, slr, out, hn>>

\* lim.Wait: case <-ctx.Done(): r.Cancel() gives the token back; return ctx.Err()
PaceLimiterCancelled ==
    /\ pace.pc = "lim_timer"
    /\ pace.cancelled
    /\ LET t == Advance(pace) + TicksPerMinute
           cap == pace.burst * TicksPerMinute
       IN  pace' = [pace EXCEPT !.pc = "failed", !.last = pace.now,
                                !.tokens = IF t > cap THEN cap ELSE t]
    /\ UNCHANGED <<nonExtV, jit, relV, conV, call, lim, slr, out, hn>>

\* rateLimitedWait: jitterMs := rand.Intn(200); return sleepCtx(ctx, jitterMs ms)
PaceJitter ==
    /\ pace.pc = "jitter"
    /\ \E j \in JitterValues : pace' = PaceSleepCtx(pace, j)
    /\ UNCHANGED <<nonExtV, jit, relV, conV, call, lim, slr, out, hn>>

\* sleepCtx: case <-time.After(d): return nil
PaceSleepTimer ==
    /\ pace.pc = "sleep"
    /\ pace.now >= pace.wake
    /\ pace' = WaitReturnsOk(pace)
    /\ UNCHANGED <<nonExtV, jit, relV, conV, call, lim, slr, out, hn>>

\* sleepCtx: case <-ctx.Done(): return ctx.Err()
PaceSleepCancelled ==
    /\ pace.pc = "sleep"
    /\ pace.cancelled
    /\ pace' = [pace EXCEPT !.pc = "failed"]
    /\ UNCHANGED <<nonExtV, jit, relV, conV, call, lim, slr, out, hn>>

NextPacing ==
    \/ PaceTick
    \/ PaceCancel
    \/ PaceHumanWait
    \/ PaceRateLimitedWait
    \/ PaceLimiterTimer
    \/ PaceLimiterCancelled
    \/ PaceJitter
    \/ PaceSleepTimer
    \/ PaceSleepCancelled

SpecPacing == InitPacing /\ [][NextPacing]_vars

\* C26: in rate_limited mode, when the k-th Wait has returned nil, the time
\* from the start of the i-th Wait to that return is at least (k - i) token
\* intervals of 60 / requests_per_minute seconds, for every i <= k: n
\* successive calls take at least (n - 1) * 60 / rpm seconds.
C26_RateLimitedSpacing ==
    (pace.mode = "rate_limited" /\ pace.pc = "idle" /\ pace.oks > 0) =>
        \A i \in 1..pace.oks :
            (pace.retAt - pace.starts[i]) * pace.rpm >= (pace.oks - i) * TicksPerMinute

\* C26 witness: the fourth Wait returned nil with the token interval not a
\* whole number of ticks, after the loop had let the bucket fill between calls.
C26_Witness ==
    /\ pace.mode = "rate_limited"
    /\ pace.rpm = 400
    /\ pace.pc = "idle"
    /\ pace.oks = 4
    /\ \E i \in 2..4 : pace.starts[i] >= pace.starts[i - 1] + 3

\* C27: in human mode the delay of each Wait is between min_delay_ms and
\* max_delay_ms, and is min_delay_ms when max_delay_ms <= min_delay_ms; a Wait
\* that returned nil returned no earlier than its delay after its start; and a
\* sleeping Wait whose context is not cancelled leaves the sleep only by
\* returning nil, which it can do once the delay has passed.
C27_HumanDelay ==
    /\ [](pace.mode = "human" /\ Len(pace.starts) > 0 =>
            /\ pace.minMs <= pace.d /\ pace.d <= pace.maxMs
            /\ (pace.maxMs <= pace.minMs => pace.d = pace.minMs)
            /\ (pace.pc = "idle" => pace.retAt >= pace.starts[pace.oks] + pace.d)
            /\ (pace.pc = "sleep" /\ pace.now >= pace.wake => ENABLED PaceSleepTimer))
    /\ [][(pace.mode = "human" /\ pace.pc = "sleep" /\ ~pace.cancelled /\ pace.pc' # "sleep")
            => (pace.pc' = "idle" /\ pace.oks' = pace.oks + 1 /\ pace.now >= pace.starts[pace.oks + 1] + pace.d)]_vars

\* C27 witness: with min_delay_ms < max_delay_ms a Wait slept the largest
\* delay and returned nil.
C27_Witness ==
    /\ pace.mode = "human"
    /\ pace.minMs < pace.maxMs
    /\ pace.pc = "idle"
    /\ pace.oks >= 2
    /\ pace.d = pace.maxMs
    /\ ~pace.cancelled

(***************************************************************************)
(* SpecSelector: NewSelector(targets) and Selector.Pick                    *)
(* (internal/task/selector.go).  Slices are functions on 0..n-1; a         *)
(* probability is kept as its numerator over totalWeight, which every      *)
(* value of the construction is a whole multiple of.                       *)
(***************************************************************************)
\* the weights of the non-empty target lists with positive weights
WeightLists == UNION {[0..(n - 1) -> 1..MaxWeight] : n \in 1..MaxTargets}

\* totalWeight += t.Weight over the targets
RECURSIVE SumWeights(_, _)
SumWeights(w, n) == IF n = 0 THEN 0 ELSE w[n - 1] + SumWeights(w, n - 1)

\* the indices 0..n-1 with scaled below 1.0 (small = TRUE) or not, in
\* ascending order, as the appends of the first loop leave them
RECURSIVE Partition(_, _, _, _)
Partition(scaled, n, W, small) ==
    IF n = 0 THEN <<>>
    ELSE LET rest == Partition(scaled, n - 1, W, small) IN
         IF (scaled[n - 1] < W) = small THEN Append(rest, n - 1) ELSE rest

\* the large slot's remainder with the small slot's share not taken off
DonateOff(sg, sl, W) == sg - W

\* scaled[g] = (scaled[g] + scaled[l]) - 1.0
Donate(sg, sl, W) == (sg + sl) - W

\* for len(small) > 0 && len(large) > 0 { ... }
RECURSIVE VoseLoop(_, _, _, _, _, _)
VoseLoop(small, large, scaled, prob, alias, W) ==
    IF Len(small) = 0 \/ Len(large) = 0
    THEN [small |-> small, large |-> large, prob |-> prob, alias |-> alias]
    ELSE LET l == small[Len(small)]
             g == large[Len(large)]
             small1 == SubSeq(small, 1, Len(small) - 1)
             large1 == SubSeq(large, 1, Len(large) - 1)
             sg == Donate(scaled[g], scaled[l], W)
             scaled1 == [scaled EXCEPT ![g] = sg]
         IN  VoseLoop(IF sg < W THEN Append(small1, g) ELSE small1,
                      IF sg < W THEN large1 ELSE Append(large1, g),
                      scaled1,
                      [prob EXCEPT ![l] = scaled[l]],
                      [alias EXCEPT ![l] = g],
                      W)

\* the elements of a slice
Elems(q) == {q[k] : k \in 1..Len(q)}

\* NewSelector past its two error returns: the alias table
AliasTable(w) ==
    LET n == Cardinality(DOMAIN w)
        W == SumWeights(w, n)
        scaled == [k \in 0..(n - 1) |-> w[k] * n]
        r == VoseLoop(Partition(scaled, n, W, TRUE), Partition(scaled, n, W, FALSE), scaled,
                      [k \in 0..(n - 1) |-> 0], [k \in 0..(n - 1) |-> 0], W)
    IN  [n |-> n,
         prob |-> [k \in 0..(n - 1) |->
                     IF k \in Elems(r.large) \cup Elems(r.small) THEN W ELSE r.prob[k]],
         alias |-> r.alias]

\* Pick with rand.Intn(s.n) = i and rand.Float64() in [u/W, (u+1)/W)
PickIndex(t, i, u) == IF u < t.prob[i] THEN i ELSE t.alias[i]

InitSelector ==
    /\ \E w \in WeightLists : slr = [NoSelector EXCEPT !.weights = w, !.pc = "new"]
    /\ ProgramUnused
    /\ FunUnused({"slr"})

\* NewSelector(targets) returns the Selector
NewSelectorReturns ==
    /\ slr.pc = "new"
    /\ LET t == AliasTable(slr.weights) IN
        slr' = [slr EXCEPT !.pc = "built", !.n = t.n, !.prob = t.prob, !.alias = t.alias]
    /\ UNCHANGED <<nonExtV, jit, relV, conV, call, lim, pace, out, hn>>

\* s.Pick()
SelectorPick ==
    /\ slr.pc \in {"built", "picked"}
    /\ \E i \in 0..(slr.n - 1), u \in 0..(SumWeights(slr.weights, slr.n) - 1) :
        slr' = [slr EXCEPT !.pc = "picked", !.i = i, !.u = u, !.idx = PickIndex(slr, i, u)]
    /\ UNCHANGED <<nonExtV, jit, relV, conV, call, lim, pace, out, hn>>

NextSelector ==
    \/ NewSelectorReturns
    \/ SelectorPick

SpecSelector == InitSelector /\ [][NextSelector]_vars

\* the draws of Pick that give target k, out of n * totalWeight equally likely ones
Mass(k) ==
    Cardinality({d \in (0..(slr.n - 1)) \X (0..(SumWeights(slr.weights, slr.n) - 1)) :
                    PickIndex(slr, d[1], d[2]) = k})

Senders == 1..NSenders

\* output.New: the channel is empty, the writer goroutine is started
InitWriter ==
    /\ out = [ch |-> <<>>, closed |-> FALSE, done |-> FALSE, run |-> "range", r |-> 0,
              file |-> <<>>, flushed |-> FALSE,
              send |-> [p \in Senders |-> 0], close |-> "idle",
              accepted |-> <<>>, dropped |-> {}, nsent |-> 0]
    /\ ProgramUnused
    /\ FunUnused({"out"})

\* dispatch has a result and reaches e.writer.Send(result)
DispatchResult(p) ==
    /\ out.close = "idle"
    /\ out.send[p] = 0
    /\ out.nsent < MaxSends
    /\ out' = [out EXCEPT !.send[p] = out.nsent + 1, !.nsent = @ + 1]
    /\ UNCHANGED <<nonExtV, jit, relV, conV, call, lim, pace, slr, hn>>

\* Send: select { case w.ch <- r: default: log.Warn() }
WriterSend(p) ==
    /\ out.send[p] # 0
    /\ IF Len(out.ch) < ChanBuf
       THEN out' = [out EXCEPT !.ch = Append(@, out.send[p]),
                               !.accepted = Append(@, out.send[p]),
                               !.send[p] = 0]
       ELSE out' = [out EXCEPT !.dropped = @ \cup {out.send[p]}, !.send[p] = 0]
    /\ UNCHANGED <<nonExtV, jit, relV, conV, call, lim, pace, slr, hn>>

\* runJSONL / runCSV: for r := range w.ch receives the next result
WriterReceive ==
    /\ out.run = "range"
    /\ Len(out.ch) > 0
    /\ out' = [out EXCEPT !.r = Head(out.ch), !.ch = Tail(@), !.run = "encode"]
    /\ UNCHANGED <<nonExtV, jit, relV, conV, call, lim, pace, slr, hn>>

\* enc.Encode(toRecord(r)); bw.Flush() (or cw.Write(row); cw.Flush())
WriterEncode ==
    /\ out.run = "encode"
    /\ out' = [out EXCEPT !.file = Append(@, out.r), !.r = 0, !.run = "range"]
    /\ UNCHANGED <<nonExtV, jit, relV, conV, call, lim, pace, slr, hn>>

\* the range loop ends: the channel is closed and empty; run's deferred
\* functions: bw.Flush(), f.Close(), then close(w.done)
WriterRunReturns ==
    /\ out.run = "range"
    /\ Len(out.ch) = 0
    /\ out.closed
    /\ out' = [out EXCEPT !.run = "returned", !.flushed = TRUE, !.done = TRUE]
    /\ UNCHANGED <<nonExtV, jit, relV, conV, call, lim, pace, slr, hn>>

\* Run: e.pool.Wait() has returned, so no dispatch goroutine is left; the
\* deferred e.writer.Close() starts: close(w.ch)
WriterClose ==
    /\ out.close = "idle"
    /\ \A p \in Senders : out.send[p] = 0
    /\ out' = [out EXCEPT !.closed = TRUE, !.close = "wait_done"]
    /\ UNCHANGED <<nonExtV, jit, relV, conV, call, lim, pace, slr, hn>>

\* Close returning without the receive from w.done
DoneClosedOff == TRUE

\* <-w.done can proceed
DoneClosed == out.done

\* Close: <-w.done; Close returns
WriterCloseReturns ==
    /\ out.close = "wait_done"
    /\ DoneClosed
    /\ out' = [out EXCEPT !.close = "returned"]
    /\ UNCHANGED <<nonExtV, jit, relV, conV, call, lim, pace, slr, hn>>

NextWriter ==
    \/ \E p \in Senders : DispatchResult(p)
    \/ \E p \in Senders : WriterSend(p)
    \/ WriterReceive
    \/ WriterEncode
    \/ WriterRunReturns
    \/ WriterClose
    \/ WriterCloseReturns

SpecWriter == InitWriter /\ [][NextWriter]_vars

Chars == {"a", "8", ":", "/", "[", "]", "@", "?", "%"}

Prefixes == {<<>>, <<"/", "/">>, <<"a", ":", "/", "/">>}

Strings == UNION {[1..n -> Chars] : n \in 0..MaxBody}

IsLetter(c) == c = "a"

IsDigit(c) == c = "8"

IsHex(c) == c \in {"a", "8"}

\* strings.Index(s, c) and strings.LastIndex(s, c), 1-based, 0 when absent
Index(s, c) ==
    IF \E i \in 1..Len(s) : s[i] = c
    THEN CHOOSE i \in 1..Len(s) : s[i] = c /\ \A j \in 1..(i - 1) : s[j] # c
    ELSE 0

LastIndex(s, c) ==
    IF \E i \in 1..Len(s) : s[i] = c
    THEN CHOOSE i \in 1..Len(s) : s[i] = c /\ \A j \in (i + 1)..Len(s) : s[j] # c
    ELSE 0

\* s[i:] of Go with i 0-based: the characters after the first i
From(s, i) == SubSeq(s, i + 1, Len(s))

\* strings.HasPrefix(s, "//")
HasSlashSlash(s) == Len(s) >= 2 /\ s[1] = "/" /\ s[2] = "/"

\* getScheme(rawURL)
getScheme(s) ==
    LET stops == {i \in 1..Len(s) : ~IsLetter(s[i]) /\ ~(IsDigit(s[i]) /\ i > 1)} IN
    IF stops = {} THEN [err |-> FALSE, scheme |-> <<>>, rest |-> s]
    ELSE LET i == CHOOSE k \in stops : \A j \in stops : k <= j IN
         IF s[i] = ":"
         THEN IF i = 1 THEN [err |-> TRUE, scheme |-> <<>>, rest |-> <<>>]
              ELSE [err |-> FALSE, scheme |-> SubSeq(s, 1, i - 1), rest |-> From(s, i)]
         ELSE [err |-> FALSE, scheme |-> <<>>, rest |-> s]

\* the ASCII characters shouldEscape(c, encodeHost) rejects in a host
InvalidHostChars == {"/", "?", "@"}

\* unescape(s, mode): a "%" needs two hex digits after it (with the hex digits
\* here the byte is above 0x7f, which the host mode allows); the host mode
\* rejects InvalidHostChars
RECURSIVE unescape(_, _)
unescape(s, hostMode) ==
    IF Len(s) = 0 THEN [err |-> FALSE, out |-> <<>>]
    ELSE IF s[1] = "%"
    THEN IF Len(s) >= 3 /\ IsHex(s[2]) /\ IsHex(s[3])
         THEN LET r == unescape(From(s, 3), hostMode) IN [err |-> r.err, out |-> <<"E">> \o r.out]
         ELSE [err |-> TRUE, out |-> <<>>]
    ELSE IF hostMode /\ s[1] \in InvalidHostChars
    THEN [err |-> TRUE, out |-> <<>>]
    ELSE LET r == unescape(From(s, 1), hostMode) IN [err |-> r.err, out |-> <<s[1]>> \o r.out]

\* validOptionalPort(port)
validOptionalPort(port) ==
    \/ Len(port) = 0
    \/ port[1] = ":" /\ \A i \in 2..Len(port) : IsDigit(port[i])

\* parseHost(host)
parseHost(host) ==
    IF Len(host) > 0 /\ host[1] = "["
    THEN LET i == LastIndex(host, "]") IN
         IF i = 0 \/ ~validOptionalPort(From(host, i))
         THEN [err |-> TRUE, out |-> <<>>]
         ELSE unescape(host, TRUE)
    ELSE LET i == LastIndex(host, ":") IN
         IF i # 0 /\ ~validOptionalPort(From(host, i - 1))
         THEN [err |-> TRUE, out |-> <<>>]
         ELSE unescape(host, TRUE)

\* validUserinfo(s)
validUserinfo(s) == \A i \in 1..Len(s) : s[i] \in {"a", "8", ":", "%", "@"}

\* parseAuthority(authority): the host, with the errors of the userinfo
parseAuthority(authority) ==
    LET i == LastIndex(authority, "@")
        h == parseHost(From(authority, i))
        userinfo == SubSeq(authority, 1, i - 1)
        c == Index(userinfo, ":")
    IN  IF h.err \/ i = 0 THEN h
        ELSE IF ~validUserinfo(userinfo) THEN [err |-> TRUE, out |-> <<>>]
        ELSE IF c = 0
        THEN [err |-> unescape(userinfo, FALSE).err, out |-> h.out]
        ELSE [err |-> unescape(SubSeq(userinfo, 1, c - 1), FALSE).err
                        \/ unescape(From(userinfo, c), FALSE).err,
              out |-> h.out]

\* url.Parse(rawURL): err, and Host and Path of the URL
Parse(rawURL) ==
    LET sc == getScheme(rawURL)
        q == Index(sc.rest, "?")
        rest == IF q = 0 THEN sc.rest ELSE SubSeq(sc.rest, 1, q - 1)
        seg == IF Index(rest, "/") = 0 THEN rest ELSE SubSeq(rest, 1, Index(rest, "/") - 1)
        bad == [err |-> TRUE, host |-> <<>>, path |-> <<>>]
    IN  IF sc.err THEN bad
        ELSE IF ~(Len(rest) > 0 /\ rest[1] = "/") /\ Len(sc.scheme) > 0
        THEN [err |-> FALSE, host |-> <<>>, path |-> <<>>]
        ELSE IF ~(Len(rest) > 0 /\ rest[1] = "/") /\ Index(seg, ":") # 0
        THEN bad
        ELSE IF HasSlashSlash(rest) /\ (Len(sc.scheme) > 0 \/ ~(Len(rest) >= 3 /\ rest[3] = "/"))
        THEN LET a == From(rest, 2)
                 i == Index(a, "/")
                 authority == IF i = 0 THEN a ELSE SubSeq(a, 1, i - 1)
                 prest == IF i = 0 THEN <<>> ELSE From(a, i - 1)
                 h == parseAuthority(authority)
                 pth == unescape(prest, FALSE)
             IN  IF h.err \/ pth.err THEN bad
                 ELSE [err |-> FALSE, host |-> h.out, path |-> pth.out]
        ELSE LET pth == unescape(rest, FALSE) IN
             IF pth.err THEN bad ELSE [err |-> FALSE, host |-> <<>>, path |-> pth.out]

\* URL.Hostname(): splitHostPort(u.Host) without the port and the brackets
Hostname(u) ==
    LET colon == LastIndex(u.host, ":")
        host == IF colon # 0 /\ validOptionalPort(From(u.host, colon - 1))
                THEN SubSeq(u.host, 1, colon - 1) ELSE u.host
    IN  IF Len(host) >= 2 /\ host[1] = "[" /\ host[Len(host)] = "]"
        THEN SubSeq(host, 2, Len(host) - 1)
        ELSE host

\* hostname giving the URL's path when it has no host
NoHostOff(rawURL, u) == u.path

\* hostname: if host == "" { return rawURL }
NoHost(rawURL, u) == rawURL

\* hostname(rawURL)
hostname(rawURL) ==
    LET u == Parse(rawURL) IN
    IF u.err THEN rawURL
    ELSE IF Hostname(u) = <<>> THEN NoHost(rawURL, u)
    ELSE Hostname(u)

InitHostname ==
    /\ \E pre \in Prefixes, body \in Strings :
        hn = [pc |-> "first", x |-> pre \o body, h |-> <<>>, hh |-> <<>>]
    /\ ProgramUnused
    /\ FunUnused({"hn"})

\* host := hostname(t.URL)
HostnameReturns ==
    /\ hn.pc = "first"
    /\ hn' = [hn EXCEPT !.pc = "second", !.h = hostname(hn.x)]
    /\ UNCHANGED <<nonExtV, jit, relV, conV, call, lim, pace, slr, out>>

\* hostname applied to the host it returned
HostnameAgain ==
    /\ hn.pc = "second"
    /\ hn' = [hn EXCEPT !.pc = "done", !.hh = hostname(hn.h)]
    /\ UNCHANGED <<nonExtV, jit, relV, conV, call, lim, pace, slr, out>>

NextHostname ==
    \/ HostnameReturns
    \/ HostnameAgain

SpecHostname == InitHostname /\ [][NextHostname]_vars

\* C30: hostname is idempotent, hostname(hostname(x)) = hostname(x); and
\* hostname(x) is the host of the URL without its port when x parses as a URL
\* whose host is not empty, and x itself otherwise.
C30_HostnameIdempotent ==
    /\ hn.pc = "done" => hn.hh = hn.h
    /\ hn.pc \in {"second", "done"} =>
        LET u == Parse(hn.x) IN
        IF ~u.err /\ Hostname(u) # <<>> THEN hn.h = Hostname(u) ELSE hn.h = hn.x

\* C30 witness: a bracketed host with a port gave a host that holds a colon,
\* and hostname was applied to it again.
C30_Witness ==
    /\ hn.pc = "done"
    /\ hn.h # hn.x
    /\ Index(hn.h, ":") # 0
    /\ Index(hn.x, "[") # 0

(***************************************************************************)
(* Claims about the dispatch loop and the gates, on Spec                   *)
(***************************************************************************)
\* the positions of a dispatch goroutine after drv.Execute has returned
AfterExecPcs == {"record", "release"}

C32_LoopExitsOnCancel ==
    [](ctxDone /\ runPc \in SchedPcs \cup AdmitPcs => [](runPc # "spawn"))

\* the status by which each driver reports its own success
SuccessStatus(type) ==
    IF type = "http" THEN {c \in HTTPStatusCodes : c >= 200 /\ c < 300}
    ELSE IF type = "websocket" THEN {101}
    ELSE {200}

\* C37: for every driver type, when drv.Execute returns no error and the
\* driver's success status, dispatch classifies the result None and calls
\* bo.RecordSuccess(host).
C37_SuccessRecorded ==
    [][\A s \in Slots :
        task[s].pc = "exec" =>
            \A r \in Execute(TypeOf(task[s].tgt)) :
                (r.err = "nil" /\ r.status \in SuccessStatus(TypeOf(task[s].tgt)) /\ React(s, r))
                    => /\ ResultClass(r) = "None"
                       /\ attempts'[HostOf(task[s].tgt)] = 0
                       /\ ~blocked'[HostOf(task[s].tgt)]
    ]_vars

(***************************************************************************)
(* Claims about the dispatch loop across a reload, on SpecReload           *)
(***************************************************************************)
\* C36: once a successful Reload has returned, every go e.dispatch(ctx, t) of
\* the loop carries a task picked from the selector that Reload stored: its
\* target is one the new configuration's selector can return.
C36_SpawnsFromNewSelector ==
    [][\A s \in ReloadSlots :
        (rtask[s].pc = "free" /\ rtask'[s].pc # "free" /\ relPc = "idle")
            => /\ rtask'[s].sel = relLast
               /\ rtask'[s].url \in PickSet(cfgs[relLast].targets)
    ]_vars

(***************************************************************************)
(* Claims about the entries of the backoff registry, on SpecBackoff        *)
(***************************************************************************)
\* C34: the backoff a returned RecordError(d) set is not discarded by an
\* eviction that was already under way: when Wait deletes the entry of its
\* domain, that entry's nextAllowed is not in the future.
C34_EvictionSparesPendingBackoff ==
    [][\A p \in BackoffProcs :
        (rpc[p] = "wait_evict" /\ rpc'[p] = "idle")
            => (domains[rdom[p]] = 0 \/ domains[rdom[p]] \notin dbPending)
    ]_vars

\* C40: an entry of r.domains has attempts >= 1 in every state, the states
\* between the two critical sections of RecordError included.
C40_EntryHasAttempts ==
    \A d \in Hosts : domains[d] # 0 => dbAttempts[domains[d]] >= 1

(***************************************************************************)
(* SpecLocks: NLockProcs goroutines call RecordError, RecordSuccess, Wait  *)
(* and Attempts on one BackoffRegistry (internal/ratelimit/backoff.go).    *)
(* r.mu and every db.mu are explicit: mu and dbmu[o] name the goroutine    *)
(* that holds the mutex, 0 when it is free; a step is one Lock, or one     *)
(* critical section together with its Unlock.                              *)
(***************************************************************************)
LockProcs == 1..NLockProcs

\* the domainBackoff objects: a call allocates at most one
LockDbIds == 1..MaxLockCalls

\* the methods of the registry
LockOps == {"RecordError", "RecordSuccess", "Wait", "Attempts"}

\* the positions at r.mu.Lock(): of RecordError, RecordSuccess, Wait (first
\* and second section) and Attempts
MuWaitPcs == {"re_lock", "rs_lock", "w_lock", "w_lock2", "a_lock"}

\* the positions at db.mu.Lock(): of RecordError, Wait and Attempts
DbWaitPcs == {"re_lock_db", "w_lock_db", "a_lock_db"}

\* the position inside the critical section that the Lock opens
Locked(pc) ==
    CASE pc = "re_lock" -> "re_map"
      [] pc = "rs_lock" -> "rs_delete"
      [] pc = "w_lock" -> "w_map"
      [] pc = "w_lock2" -> "w_delete"
      [] pc = "a_lock" -> "a_map"
      [] pc = "re_lock_db" -> "re_incr"
      [] pc = "w_lock_db" -> "w_read"
      [] pc = "a_lock_db" -> "a_read"

\* the first statement of each method is r.mu.Lock()
Entry(op) ==
    CASE op = "RecordError" -> "re_lock"
      [] op = "RecordSuccess" -> "rs_lock"
      [] op = "Wait" -> "w_lock"
      [] op = "Attempts" -> "a_lock"

\* NewBackoffRegistry, and the goroutines about to call it
InitLocks ==
    /\ ProgramUnused
    /\ FunUnused({"lk"})
    /\ lk = [mu |-> 0,
             dbmu |-> [o \in LockDbIds |-> 0],
             domains |-> [d \in Hosts |-> 0],
             attempts |-> [o \in LockDbIds |-> 0],
             pend |-> {},
             nobj |-> 0,
             pc |-> [p \in LockProcs |-> "idle"],
             dom |-> [p \in LockProcs |-> "none"],
             db |-> [p \in LockProcs |-> 0],
             seen |-> [p \in LockProcs |-> 0],
             ncalls |-> 0]

\* the call of goroutine p has returned
LkReturned(l, p) == [l EXCEPT !.pc[p] = "idle", !.dom[p] = "none", !.db[p] = 0, !.seen[p] = 0]

\* goroutine p calls a method of the registry on domain d
LkCall(p, op, d) ==
    /\ lk.pc[p] = "idle"
    /\ lk.ncalls < MaxLockCalls
    /\ lk' = [lk EXCEPT !.pc[p] = Entry(op), !.dom[p] = d, !.ncalls = @ + 1]
    /\ UNCHANGED <<nonExtV, jit, relV, call, lim, pace, slr, out, hn, dsp, upd>>

\* r.mu.Lock() returns: the mutex was free
LkLockMu(p) ==
    /\ lk.pc[p] \in MuWaitPcs
    /\ lk.mu = 0
    /\ lk' = [lk EXCEPT !.mu = p, !.pc[p] = Locked(lk.pc[p])]
    /\ UNCHANGED <<nonExtV, jit, relV, call, lim, pace, slr, out, hn, dsp, upd>>

\* db.mu.Lock() returns: the mutex of the goroutine's db was free
LkLockDb(p) ==
    /\ lk.pc[p] \in DbWaitPcs
    /\ lk.dbmu[lk.db[p]] = 0
    /\ lk' = [lk EXCEPT !.dbmu[lk.db[p]] = p, !.pc[p] = Locked(lk.pc[p])]
    /\ UNCHANGED <<nonExtV, jit, relV, call, lim, pace, slr, out, hn, dsp, upd>>

\* RecordError going on to db.mu.Lock() without r.mu.Unlock()
LkRecordErrorMapOff(p) ==
    /\ lk.pc[p] = "re_map"
    /\ LET d == lk.dom[p]
           fresh == lk.domains[d] = 0
           o == IF fresh THEN lk.nobj + 1 ELSE lk.domains[d]
       IN  lk' = [lk EXCEPT !.domains[d] = o, !.nobj = IF fresh THEN @ + 1 ELSE @,
                            !.db[p] = o, !.pc[p] = "re_lock_db"]
    /\ UNCHANGED <<nonExtV, jit, relV, call, lim, pace, slr, out, hn, dsp, upd>>

\* RecordError under r.mu: db, ok := r.domains[domain], created and stored
\* when absent; r.mu.Unlock()
LkRecordErrorMap(p) ==
    /\ lk.pc[p] = "re_map"
    /\ LET d == lk.dom[p]
           fresh == lk.domains[d] = 0
           o == IF fresh THEN lk.nobj + 1 ELSE lk.domains[d]
       IN  lk' = [lk EXCEPT !.domains[d] = o, !.nobj = IF fresh THEN @ + 1 ELSE @,
                            !.db[p] = o, !.mu = 0, !.pc[p] = "re_lock_db"]
    /\ UNCHANGED <<nonExtV, jit, relV, call, lim, pace, slr, out, hn, dsp, upd>>

\* RecordError under db.mu: db.attempts++, db.nextAllowed = now + delay; the
\* deferred db.mu.Unlock()
LkRecordErrorIncrement(p) ==
    /\ lk.pc[p] = "re_incr"
    /\ lk' = LkReturned([lk EXCEPT !.attempts[lk.db[p]] = @ + 1, !.pend = @ \cup {lk.db[p]},
                                   !.dbmu[lk.db[p]] = 0], p)
    /\ UNCHANGED <<nonExtV, jit, relV, call, lim, pace, slr, out, hn, dsp, upd>>

\* RecordSuccess under r.mu: delete(r.domains, domain); r.mu.Unlock()
LkRecordSuccessDelete(p) ==
    /\ lk.pc[p] = "rs_delete"
    /\ lk' = LkReturned([lk EXCEPT !.domains[lk.dom[p]] = 0, !.mu = 0], p)
    /\ UNCHANGED <<nonExtV, jit, relV, call, lim, pace, slr, out, hn, dsp, upd>>

\* Wait under r.mu: db, ok := r.domains[domain]; r.mu.Unlock(); !ok returns nil
LkWaitMap(p) ==
    /\ lk.pc[p] = "w_map"
    /\ lk' = IF lk.domains[lk.dom[p]] = 0
             THEN LkReturned([lk EXCEPT !.mu = 0], p)
             ELSE [lk EXCEPT !.mu = 0, !.db[p] = lk.domains[lk.dom[p]], !.pc[p] = "w_lock_db"]
    /\ UNCHANGED <<nonExtV, jit, relV, call, lim, pace, slr, out, hn, dsp, upd>>

\* Wait under db.mu: until and attempts are read; db.mu.Unlock(); then
\* remaining > 0 leads to the select, remaining <= 0 to the eviction when
\* attempts >= r.maxAttempts and to return nil otherwise
LkWaitRead(p) ==
    /\ lk.pc[p] = "w_read"
    /\ LET o == lk.db[p]
           unlocked == [lk EXCEPT !.dbmu[o] = 0, !.seen[p] = lk.attempts[o]]
       IN  lk' = IF o \in lk.pend THEN [unlocked EXCEPT !.pc[p] = "w_sleep"]
                 ELSE IF lk.attempts[o] >= MaxAttempts THEN [unlocked EXCEPT !.pc[p] = "w_lock2"]
                 ELSE LkReturned(unlocked, p)
    /\ UNCHANGED <<nonExtV, jit, relV, call, lim, pace, slr, out, hn, dsp, upd>>

\* Wait's select: the remaining it computed elapses, or ctx is cancelled
LkWaitSelect(p) ==
    /\ lk.pc[p] = "w_sleep"
    /\ lk' = LkReturned(lk, p)
    /\ UNCHANGED <<nonExtV, jit, relV, call, lim, pace, slr, out, hn, dsp, upd>>

\* Wait under r.mu again: delete(r.domains, domain); r.mu.Unlock(); return nil
LkWaitDelete(p) ==
    /\ lk.pc[p] = "w_delete"
    /\ lk' = LkReturned([lk EXCEPT !.domains[lk.dom[p]] = 0, !.mu = 0], p)
    /\ UNCHANGED <<nonExtV, jit, relV, call, lim, pace, slr, out, hn, dsp, upd>>

\* Attempts under r.mu: db, ok := r.domains[domain]; r.mu.Unlock(); !ok returns 0
LkAttemptsMap(p) ==
    /\ lk.pc[p] = "a_map"
    /\ lk' = IF lk.domains[lk.dom[p]] = 0
             THEN LkReturned([lk EXCEPT !.mu = 0], p)
             ELSE [lk EXCEPT !.mu = 0, !.db[p] = lk.domains[lk.dom[p]], !.pc[p] = "a_lock_db"]
    /\ UNCHANGED <<nonExtV, jit, relV, call, lim, pace, slr, out, hn, dsp, upd>>

\* Attempts under db.mu: return db.attempts; the deferred db.mu.Unlock()
LkAttemptsRead(p) ==
    /\ lk.pc[p] = "a_read"
    /\ lk' = LkReturned([lk EXCEPT !.dbmu[lk.db[p]] = 0], p)
    /\ UNCHANGED <<nonExtV, jit, relV, call, lim, pace, slr, out, hn, dsp, upd>>

\* time passes db.nextAllowed
LkDelayElapses(o) ==
    /\ o \in lk.pend
    /\ lk' = [lk EXCEPT !.pend = @ \ {o}]
    /\ UNCHANGED <<nonExtV, jit, relV, call, lim, pace, slr, out, hn, dsp, upd>>

\* a step of goroutine p inside a call
LkStep(p) ==
    \/ LkLockMu(p)
    \/ LkLockDb(p)
    \/ LkRecordErrorMap(p)
    \/ LkRecordErrorIncrement(p)
    \/ LkRecordSuccessDelete(p)
    \/ LkWaitMap(p)
    \/ LkWaitRead(p)
    \/ LkWaitSelect(p)
    \/ LkWaitDelete(p)
    \/ LkAttemptsMap(p)
    \/ LkAttemptsRead(p)

NextLocks ==
    \/ \E p \in LockProcs, op \in LockOps, d \in Hosts : LkCall(p, op, d)
    \/ \E p \in LockProcs : LkLockMu(p)
    \/ \E p \in LockProcs : LkLockDb(p)
    \/ \E p \in LockProcs : LkRecordErrorMap(p)
    \/ \E p \in LockProcs : LkRecordErrorIncrement(p)
    \/ \E p \in LockProcs : LkRecordSuccessDelete(p)
    \/ \E p \in LockProcs : LkWaitMap(p)
    \/ \E p \in LockProcs : LkWaitRead(p)
    \/ \E p \in LockProcs : LkWaitSelect(p)
    \/ \E p \in LockProcs : LkWaitDelete(p)
    \/ \E p \in LockProcs : LkAttemptsMap(p)
    \/ \E p \in LockProcs : LkAttemptsRead(p)
    \/ \E o \in LockDbIds : LkDelayElapses(o)

SpecLocks == InitLocks /\ [][NextLocks]_vars

\* goroutine p holds r.mu; goroutine p holds the mutex of some domainBackoff
HoldsMu(p) == lk.mu = p

HoldsDb(p) == \E o \in LockDbIds : lk.dbmu[o] = p

\* C38: no goroutine holds r.mu and a db.mu at the same time; a goroutine
\* that holds a mutex is never waiting for one, so it can always take its
\* next step and release it; and in no state with a call in progress are all
\* the goroutines in a call blocked.
C38_NeverBothLocks ==
    /\ \A p \in LockProcs : ~(HoldsMu(p) /\ HoldsDb(p))
    /\ \A p \in LockProcs :
        (HoldsMu(p) \/ HoldsDb(p)) => (lk.pc[p] \notin MuWaitPcs \cup DbWaitPcs /\ ENABLED LkStep(p))
    /\ (\E p \in LockProcs : lk.pc[p] # "idle") => \E p \in LockProcs : ENABLED LkStep(p)

\* C38 witness: one goroutine holds the db.mu of a domain's entry inside
\* RecordError, another holds r.mu inside a Wait for the same domain and is
\* about to find that entry, and an Attempts call waits for r.mu.
C38_Witness ==
    \E p, q, w \in LockProcs :
        /\ lk.pc[q] = "re_incr"
        /\ lk.dbmu[lk.db[q]] = q
        /\ lk.pc[p] = "w_map"
        /\ HoldsMu(p)
        /\ lk.domains[lk.dom[p]] = lk.db[q]
        /\ lk.pc[w] = "a_lock"

(***************************************************************************)
(* SpecUpdate: a human-mode Scheduler whose Wait runs in the dispatch loop *)
(* while Reload calls UpdatePacing from another goroutine; a step is one   *)
(* atomic load or store of minDelayMs / maxDelayMs.                        *)
(***************************************************************************)
\* <<min_delay_ms, max_delay_ms>> of the configurations that pass validation
DelayRanges == {r \in (0..MaxDelayMs) \X (0..MaxDelayMs) : r[1] <= r[2]}

\* NewScheduler(cfg.Pacing) in human mode
InitUpdate ==
    /\ ProgramUnused
    /\ FunUnused({"upd"})
    /\ \E r \in DelayRanges :
        upd = [NoUpdate EXCEPT !.minDelayMs = r[1], !.maxDelayMs = r[2], !.old = r,
                               !.wpc = "idle", !.upc = "idle"]

\* humanWait: minMs := s.minDelayMs.Load(); the configurations in force from
\* here on are the one stored last and the one being stored
HumanWaitLoadMin ==
    /\ upd.wpc = "idle"
    /\ upd' = [upd EXCEPT !.minMs = upd.minDelayMs, !.maxMs = 0, !.delayMs = 0,
                          !.ranges = {upd.old} \cup (IF upd.upc = "store_max" THEN {upd.cfg} ELSE {}),
                          !.wpc = "load_max"]
    /\ UNCHANGED <<nonExtV, jit, relV, call, lim, pace, slr, out, hn, lk, dsp>>

\* humanWait: maxMs := s.maxDelayMs.Load()
HumanWaitLoadMax ==
    /\ upd.wpc = "load_max"
    /\ upd' = [upd EXCEPT !.maxMs = upd.maxDelayMs, !.wpc = "draw"]
    /\ UNCHANGED <<nonExtV, jit, relV, call, lim, pace, slr, out, hn, lk, dsp>>

\* humanWait: delayMs is drawn and sleepCtx starts
HumanWaitDraw ==
    /\ upd.wpc = "draw"
    /\ \E d \in HumanDelays(upd.minMs, upd.maxMs) :
        upd' = [upd EXCEPT !.delayMs = d, !.wpc = "sleep"]
    /\ UNCHANGED <<nonExtV, jit, relV, call, lim, pace, slr, out, hn, lk, dsp>>

\* sleepCtx returns and so does Wait
HumanWaitReturns ==
    /\ upd.wpc = "sleep"
    /\ upd' = [upd EXCEPT !.wpc = "idle", !.ranges = {}]
    /\ UNCHANGED <<nonExtV, jit, relV, call, lim, pace, slr, out, hn, lk, dsp>>

\* UpdatePacing(cfg), case "human": s.minDelayMs.Store(int64(cfg.MinDelayMs))
UpdatePacingStoreMin ==
    /\ upd.upc = "idle"
    /\ upd.nupdates < MaxUpdates
    /\ \E r \in DelayRanges :
        upd' = [upd EXCEPT !.minDelayMs = r[1], !.cfg = r, !.upc = "store_max",
                           !.nupdates = @ + 1,
                           !.ranges = IF upd.wpc \in {"idle"} THEN @ ELSE @ \cup {r}]
    /\ UNCHANGED <<nonExtV, jit, relV, call, lim, pace, slr, out, hn, lk, dsp>>

\* UpdatePacing(cfg), case "human": s.maxDelayMs.Store(int64(cfg.MaxDelayMs))
UpdatePacingStoreMax ==
    /\ upd.upc = "store_max"
    /\ upd' = [upd EXCEPT !.maxDelayMs = upd.cfg[2], !.old = upd.cfg, !.upc = "idle"]
    /\ UNCHANGED <<nonExtV, jit, relV, call, lim, pace, slr, out, hn, lk, dsp>>

NextUpdate ==
    \/ HumanWaitLoadMin
    \/ HumanWaitLoadMax
    \/ HumanWaitDraw
    \/ HumanWaitReturns
    \/ UpdatePacingStoreMin
    \/ UpdatePacingStoreMax

SpecUpdate == InitUpdate /\ [][NextUpdate]_vars

\* C39: the delay a human-mode Wait sleeps lies within [min_delay_ms,
\* max_delay_ms] of one of the configurations in force during that Wait: the
\* old one or one that an UpdatePacing running concurrently is storing.
C39_DelayWithinOneRange ==
    upd.wpc = "sleep" => \E r \in upd.ranges : r[1] <= upd.delayMs /\ upd.delayMs <= r[2]

(***************************************************************************)
(* SpecDispatch: NDispatch goroutines run Engine.dispatch at once on the   *)
(* backoff registry they all loaded, under a live context.  Each call of   *)
(* the registry is one step (its critical sections run back to back), the  *)
(* sleep inside Wait excepted; nextAllowed and the clock are instants.     *)
(***************************************************************************)
Dispatchers == 1..NDispatch

\* NewBackoffRegistry, no dispatch goroutine yet
InitDispatch ==
    /\ ProgramUnused
    /\ FunUnused({"dsp"})
    /\ dsp = [pc |-> [p \in Dispatchers |-> "free"],
              tgt |-> [p \in Dispatchers |-> 0],
              wake |-> [p \in Dispatchers |-> 0],
              attempts |-> [h \in Hosts |-> 0],
              nextAllowed |-> [h \in Hosts |-> 0],
              now |-> 0,
              spawns |-> 0]

\* the goroutine's deferred e.pool.Release(t.Type) runs and the goroutine ends
DspReleased(d, p) == [d EXCEPT !.pc[p] = "free", !.tgt[p] = 0, !.wake[p] = 0]

\* Run: go e.dispatch(ctx, t) with the task the loop picked
DspSpawn(p, t) ==
    /\ dsp.pc[p] = "free"
    /\ dsp.spawns < MaxSpawns
    /\ dsp' = [dsp EXCEPT !.pc[p] = "bo_wait", !.tgt[p] = t, !.spawns = @ + 1]
    /\ UNCHANGED <<nonExtV, jit, relV, call, lim, pace, slr, out, hn, lk, upd>>

\* dispatch: drv, ok := e.drivers[t.Type]; if !ok { return }
DspUnknownDriver(p) ==
    /\ dsp.pc[p] = "bo_wait"
    /\ TypeOf(dsp.tgt[p]) \notin Drivers
    /\ dsp' = DspReleased(dsp, p)
    /\ UNCHANGED <<nonExtV, jit, relV, call, lim, pace, slr, out, hn, lk, upd>>

\* dispatch: bo.Wait(ctx, host) up to its select: no entry returns nil;
\* remaining <= 0 returns nil, after deleting an entry with attempts >=
\* maxAttempts; otherwise the goroutine sleeps for the remaining it computed
DspBackoffWait(p) ==
    /\ dsp.pc[p] = "bo_wait"
    /\ TypeOf(dsp.tgt[p]) \in Drivers
    /\ LET h == HostOf(dsp.tgt[p]) IN
        dsp' = IF dsp.attempts[h] = 0
               THEN [dsp EXCEPT !.pc[p] = "rl_wait"]
               ELSE IF dsp.nextAllowed[h] <= dsp.now
               THEN IF dsp.attempts[h] >= MaxAttempts
                    THEN [dsp EXCEPT !.pc[p] = "rl_wait", !.attempts[h] = 0, !.nextAllowed[h] = 0]
                    ELSE [dsp EXCEPT !.pc[p] = "rl_wait"]
               ELSE [dsp EXCEPT !.pc[p] = "bo_sleep", !.wake[p] = dsp.nextAllowed[h]]
    /\ UNCHANGED <<nonExtV, jit, relV, call, lim, pace, slr, out, hn, lk, upd>>

\* bo.Wait: case <-time.After(remaining): return nil
DspBackoffTimer(p) ==
    /\ dsp.pc[p] = "bo_sleep"
    /\ dsp.wake[p] <= dsp.now
    /\ dsp' = [dsp EXCEPT !.pc[p] = "rl_wait", !.wake[p] = 0]
    /\ UNCHANGED <<nonExtV, jit, relV, call, lim, pace, slr, out, hn, lk, upd>>

\* dispatch: rl.Wait(ctx, host) returns nil; drv.Execute(ctx, t) starts
DspRateLimitGranted(p) ==
    /\ dsp.pc[p] = "rl_wait"
    /\ dsp' = [dsp EXCEPT !.pc[p] = "exec"]
    /\ UNCHANGED <<nonExtV, jit, relV, call, lim, pace, slr, out, hn, lk, upd>>

\* dispatch after drv.Execute returned r: class None calls bo.RecordSuccess;
\* class Transient calls bo.Attempts(host) and compares it with bo.MaxAttempts()
DspExecuteReturns(p) ==
    /\ dsp.pc[p] = "exec"
    /\ \E r \in Execute(TypeOf(dsp.tgt[p])) :
        LET h == HostOf(dsp.tgt[p])
            class == ResultClass(r)
        IN  dsp' = IF class = "None"
                   THEN DspReleased([dsp EXCEPT !.attempts[h] = 0, !.nextAllowed[h] = 0], p)
                   ELSE IF class = "Transient" /\ dsp.attempts[h] < MaxAttempts
                   THEN [dsp EXCEPT !.pc[p] = "record"]
                   ELSE DspReleased(dsp, p)
    /\ UNCHANGED <<nonExtV, jit, relV, call, lim, pace, slr, out, hn, lk, upd>>

\* dispatch: delay := bo.RecordError(host): attempts++, nextAllowed = now + delay
DspRecordError(p) ==
    /\ dsp.pc[p] = "record"
    /\ \E delay \in 1..MaxBackoffDelay :
        LET h == HostOf(dsp.tgt[p]) IN
        dsp' = DspReleased([dsp EXCEPT !.attempts[h] = @ + 1,
                                       !.nextAllowed[h] = dsp.now + delay], p)
    /\ UNCHANGED <<nonExtV, jit, relV, call, lim, pace, slr, out, hn, lk, upd>>

\* time passes
DspTick ==
    /\ dsp.now < MaxClock
    /\ \E p \in Dispatchers : dsp.pc[p] # "free"
    /\ dsp' = [dsp EXCEPT !.now = @ + 1]
    /\ UNCHANGED <<nonExtV, jit, relV, call, lim, pace, slr, out, hn, lk, upd>>

NextDispatch ==
    \/ \E p \in Dispatchers, t \in TargetIds : DspSpawn(p, t)
    \/ \E p \in Dispatchers : DspUnknownDriver(p)
    \/ \E p \in Dispatchers : DspBackoffWait(p)
    \/ \E p \in Dispatchers : DspBackoffTimer(p)
    \/ \E p \in Dispatchers : DspRateLimitGranted(p)
    \/ \E p \in Dispatchers : DspExecuteReturns(p)
    \/ \E p \in Dispatchers : DspRecordError(p)
    \/ DspTick

SpecDispatch == InitDispatch /\ [][NextDispatch]_vars

\* C33: the attempts of a host never exceed max_attempts, whatever the
\* interleaving of the dispatch goroutines that fail for that host.
C33_AttemptsCapped == \A h \in Hosts : dsp.attempts[h] <= MaxAttempts

\* C35: no drv.Execute for a host starts between a RecordError for that host
\* and the nextAllowed it set, whether the goroutine came to bo.Wait after the
\* error or was already in dispatch when it was recorded.
C35_DomainPaused ==
    [][\A p \in Dispatchers :
        (dsp.pc[p] = "rl_wait" /\ dsp'.pc[p] = "exec")
            => LET h == HostOf(dsp.tgt[p]) IN
               ~(dsp.attempts[h] >= 1 /\ dsp.now < dsp.nextAllowed[h])
    ]_vars

====
